---- MODULE Spec2Model ----
(***************************************************************************)
(* Trust & anti-abuse engine of Lumine-backend: invite codes               *)
(* (app/invites.rs), trust scores (app/trust.rs), the ban middleware       *)
(* (http/middleware/ban.rs) and the windowed rate limiter                  *)
(* (app/rate_limiter.rs, http/middleware/rate_limit.rs).                   *)
(*                                                                         *)
(* The relational store is modelled at statement granularity: every SQL    *)
(* statement of a service method is one step of the calling process, a     *)
(* transaction buffers its writes until COMMIT, and row locks block other  *)
(* writers of the same row.  The cache is modelled per command (GET, INCR, *)
(* EXPIRE).  Sequential specifications let one service call run at a time; *)
(* concurrent ones interleave the statements of several calls.             *)
(***************************************************************************)
EXTENDS Integers, Sequences, FiniteSets, TLC

(***************************************************************************)
(* Bounds of the model                                                     *)
(***************************************************************************)
\* largest clock value (days) the store-side clock is advanced to
MaxDay == 14
\* largest max_uses of a seeded invite code
MaxUses == 2
\* number of service calls one run starts: trust, invite and concurrent invite runs
MaxTrustCalls == 3
MaxInviteCalls == 4
MaxConcCalls == 2
\* trust and redemption calls of two processes interleaved
MaxTrustConcCalls == 2
\* calls of the runs that apply two point updates in both orders
CommuteCalls == 4
\* register_fingerprint, block_device and unblock_device calls, one at a time
MaxDeviceCalls == 4
\* device calls and register requests of two interleaved callers
MaxDeviceConcCalls == 3
\* signups, redemptions and revocations of two interleaved callers
MaxSignupCalls == 3
\* number of recalculate_trust_level calls made on one set of metrics
MaxRecalcCalls == 2
\* consume_invite and revoke_invite calls in the runs with failing statements
MaxConsumeCalls == 3
\* clock steps of TickSeconds taken between requests
MaxTicks == 4
TickSeconds == 1800
\* requests made to the rate-limited endpoints
MaxRequests == 7
MaxFaultRequests == 3
MaxConcRequests == 3
\* requests made by users of each of the four trust levels
MaxQuotaRequests == 2
\* posts and get_remaining calls, one at a time
MaxRemainingRequests == 6

\* processes issuing service calls (each consume_invite caller is a distinct new user)
Procs == {1, 2, 3}
\* users owning a trust record or invite codes
Users == {"alice", "bob"}
\* invite codes: "seed" exists initially, "k1".."k4" are generated by create_invite
Codes == {"seed", "k1", "k2", "k3", "k4"}
GenCodes == <<"k1", "k2", "k3", "k4">>
\* codes the modelled callers try to redeem and to revoke ("k4" is usually unknown)
ConsumeTargets == {"seed", "k1", "k4"}
RevokeTargets == {"seed", "k1"}
\* clock advances offered to the environment, in days
TickDays == {7}
\* days_valid arguments of create_invite
DaysValid == {7}

(***************************************************************************)
(* TrustLevel (config/rate_limits.rs)                                      *)
(***************************************************************************)
New == 0
Basic == 1
Trusted == 2
Verified == 3
Levels == {New, Basic, Trusted, Verified}

\* Option::None of banned_until / no holder of a row lock
Null == -1

(***************************************************************************)
(* Pure functions of the services                                          *)
(***************************************************************************)
\* create_invite: max_invites by trust level
MaxInvites(level) ==
  CASE level = 0 -> 3
    [] level = 1 -> 10
    [] level = 2 -> 50
    [] level = 3 -> 200
    [] OTHER -> 3

\* record_activity: (points_delta, field_to_increment)
Activities ==
  {"post_created", "comment_created", "like_received", "follower_gained",
   "follower_lost", "flag_received", "content_removed", "unknown"}

PointsDelta(activity) ==
  CASE activity = "post_created" -> 5
    [] activity = "comment_created" -> 2
    [] activity = "like_received" -> 1
    [] activity = "follower_gained" -> 3
    [] activity = "follower_lost" -> -1
    [] activity = "flag_received" -> -10
    [] activity = "content_removed" -> -25
    [] OTHER -> 0

Abs(x) == IF x < 0 THEN -x ELSE x

\* SQL GREATEST(0, x)
Greatest0_NoClamp(x) == x

Greatest0_FloorFive(x) == IF x < 5 THEN 5 ELSE x

Greatest0(x) == IF x < 0 THEN 0 ELSE x

\* record_activity: the recalculation threshold, points_delta.abs() >= 5
RecalcAfterActivity_Strict(activity) == Abs(PointsDelta(activity)) > 5

RecalcAfterActivity(activity) == Abs(PointsDelta(activity)) >= 5

\* recalculate_trust_level: the level rule
NewLevel_SwappedOrder(age_days, posts, points, flags, strikes) ==
  IF age_days >= 7 /\ posts >= 5 /\ points >= 20 /\ flags < 5 THEN Basic
  ELSE IF age_days >= 90 /\ posts >= 50 /\ points >= 200 /\ flags < 3 THEN Trusted
  ELSE New

NewLevel_VerifiedTier(age_days, posts, points, flags, strikes) ==
  IF strikes >= 3 THEN New
  ELSE IF age_days >= 90 /\ posts >= 50 /\ points >= 200 /\ flags < 3 THEN Verified
  ELSE IF age_days >= 7 /\ posts >= 5 /\ points >= 20 /\ flags < 5 THEN Basic
  ELSE New

NewLevel(age_days, posts, points, flags, strikes) ==
  IF strikes >= 3 THEN New
  ELSE IF age_days >= 90 /\ posts >= 50 /\ points >= 200 /\ flags < 3 THEN Trusted
  ELSE IF age_days >= 7 /\ posts >= 5 /\ points >= 20 /\ flags < 5 THEN Basic
  ELSE New

\* add_strike: ban_duration_days by strike count (evaluated when strikes >= 3)
BanDurationDays_Flat(strikes) ==
  CASE strikes = 3 -> 7
    [] OTHER -> 30

BanDurationDays(strikes) ==
  CASE strikes = 3 -> 7
    [] strikes = 4 -> 30
    [] OTHER -> 365

\* is_banned: banned_until > now, false when the column is NULL
BanActive_Inclusive(banned_until, t) == banned_until # Null /\ banned_until >= t

BanActive(banned_until, t) == banned_until # Null /\ banned_until > t

\* record_flag: the automatic strike condition
FlagStrikeDue(flags) == flags >= 10 /\ flags % 10 = 0

(***************************************************************************)
(* State                                                                   *)
(***************************************************************************)
VARIABLES
  now,      \* store-side clock, OffsetDateTime::now_utc(), in days
  codes,    \* table invite_codes, committed rows
  rels,     \* table invite_relationships, committed rows
  trust,    \* table user_trust_scores, committed rows
  lock,     \* holder of the row lock of each invite code (a transaction), or Null
  tlock,    \* holder of the row lock of each trust row (a transaction), or Null
  pc,       \* position of each process inside its service call
  loc,      \* local variables of each process's service call
  calls     \* number of service calls started so far

storeVars == <<now, codes, rels, trust, lock, tlock, pc, loc, calls>>

\* a row that is not in its table
NoCode ==
  [exists |-> FALSE, created_by |-> "alice", is_valid |-> FALSE,
   expires_at |-> 0, use_count |-> 0, max_uses |-> 1, used_by |-> Null]

NoTrust ==
  [exists |-> FALSE, level |-> New, points |-> 0, age |-> 0, posts |-> 0,
   flags |-> 0, strikes |-> 0, banned_until |-> Null,
   invites_sent |-> 0, successful_invites |-> 0]

\* initialize_user: INSERT ... VALUES ($1, 0, 0, 0), the other columns at their defaults
FreshTrust == [NoTrust EXCEPT !.exists = TRUE]

\* a seeded code as the test helpers and create_invite insert it
SeedCode(mu, exp) ==
  [exists |-> TRUE, created_by |-> "alice", is_valid |-> TRUE,
   expires_at |-> exp, use_count |-> 0, max_uses |-> mu, used_by |-> Null]

\* locals of a service call; r is the row a SELECT returned; oldban, flags0,
\* strikes0, points0 and ncodes record banned_until, flags_received, strikes,
\* trust_points and the number of codes as the call found them; dev is the device
\* row register_fingerprint selected and info the DeviceInfo it returns
NoLocals ==
  [op |-> "none", user |-> "alice", code |-> "seed", act |-> "unknown",
   lvl |-> New, newu |-> 0, t |-> 0, r |-> NoCode, strikes |-> 0,
   sent |-> 0, oldban |-> Null, banat |-> Null, wcode |-> FALSE,
   wrel |-> FALSE, wtrust |-> FALSE, nested |-> FALSE, quota |-> 0, ncodes |-> 0,
   flags0 |-> 0, strikes0 |-> 0, points0 |-> 0, hash |-> "h1", uid |-> Null,
   handler |-> FALSE, wuser |-> FALSE, winit |-> FALSE,
   dev |-> [exists |-> FALSE, user_ids |-> <<>>, account_count |-> 0,
            risk_score |-> 0, is_blocked |-> FALSE, last_seen |-> 0],
   info |-> [exists |-> FALSE, user_ids |-> <<>>, account_count |-> 0,
             risk_score |-> 0, is_blocked |-> FALSE, last_seen |-> 0],
   ret |-> "none"]

\* trust rows the trust specifications start from: a fresh account, accounts one
\* post short of Basic and of Trusted, a flagged account with two strikes and a
\* repeat offender whose last ban has run out
TrustSeeds ==
  { FreshTrust,
    [FreshTrust EXCEPT !.age = 7, !.posts = 4, !.points = 15],
    [FreshTrust EXCEPT !.level = Basic, !.age = 90, !.posts = 49, !.points = 195],
    [FreshTrust EXCEPT !.age = 30, !.posts = 10, !.points = 60,
                       !.flags = 8, !.strikes = 2],
    [FreshTrust EXCEPT !.age = 30, !.posts = 10, !.flags = 18, !.strikes = 4,
                       !.banned_until = 0] }

\* trust rows the invite specifications start from: a fresh account and accounts
\* one invite short of the quota of Basic, Trusted and Verified
InviteSeeds ==
  { FreshTrust,
    [FreshTrust EXCEPT !.level = Basic, !.invites_sent = 9],
    [FreshTrust EXCEPT !.level = Trusted, !.invites_sent = 49],
    [FreshTrust EXCEPT !.level = Verified, !.invites_sent = 199] }

\* the store at start: one seeded code, and the same seeded trust row for each
\* user of us
StoreInitFor(seeds, maxUses, us) ==
  /\ now = 0
  /\ \E mu \in 1..maxUses :
       codes = [c \in Codes |-> IF c = "seed" THEN SeedCode(mu, 7) ELSE NoCode]
  /\ rels = {}
  /\ \E s \in seeds : trust = [u \in Users |-> IF u \in us THEN s ELSE NoTrust]
  /\ lock = [c \in Codes |-> Null]
  /\ tlock = [u \in Users |-> Null]
  /\ pc = [p \in Procs |-> "idle"]
  /\ loc = [p \in Procs |-> NoLocals]
  /\ calls = 0

StoreInit(seeds, maxUses) == StoreInitFor(seeds, maxUses, {"alice"})

\* a call may start when its process is idle and the run's budget of calls is not
\* used up; a sequential mode also requires every other process to be idle
Mode(conc, max) == [conc |-> conc, max |-> max]

CanStart(p, mode) ==
  /\ pc[p] = "idle"
  /\ calls < mode.max
  /\ mode.conc \/ \A q \in Procs : pc[q] = "idle"

\* the call returns: its result is in loc[p].ret until the process goes idle
Return(p, l, result) ==
  /\ pc' = [pc EXCEPT ![p] = "done"]
  /\ loc' = [loc EXCEPT ![p] = [l EXCEPT !.ret = result]]

Goto(p, l, label) ==
  /\ pc' = [pc EXCEPT ![p] = label]
  /\ loc' = [loc EXCEPT ![p] = l]

Finish(p) ==
  /\ pc[p] = "done"
  /\ pc' = [pc EXCEPT ![p] = "idle"]
  /\ loc' = [loc EXCEPT ![p] = NoLocals]
  /\ UNCHANGED <<now, codes, rels, trust, lock, tlock, calls>>

Tick ==
  /\ \E d \in TickDays : now + d <= MaxDay /\ now' = now + d
  /\ UNCHANGED <<codes, rels, trust, lock, tlock, pc, loc, calls>>

(***************************************************************************)
(* TrustService (app/trust.rs)                                             *)
(***************************************************************************)
\* an UPDATE of a trust row waits while an open transaction holds its row lock
TrustWritable(u) == tlock[u] = Null

UNCHANGED_Invites == UNCHANGED <<now, codes, rels, lock, tlock>>

\* initialize_user: INSERT ... ON CONFLICT (user_id) DO NOTHING
InitializeUser(p, mode) ==
  /\ CanStart(p, mode)
  /\ \E u \in Users :
       /\ TrustWritable(u)
       /\ trust' = [trust EXCEPT ![u] = IF @.exists THEN @ ELSE FreshTrust]
       /\ Return(p, [NoLocals EXCEPT !.op = "initialize_user", !.user = u], "ok")
  /\ calls' = calls + 1
  /\ UNCHANGED_Invites

\* record_activity, first statement: UPDATE trust_points = GREATEST(0, trust_points + $1)
\* and the activity's counter; then recalculate when |points_delta| >= 5
RecordActivityOf(p, mode, u) ==
  /\ CanStart(p, mode)
  /\ \E act \in Activities :
       LET l == [NoLocals EXCEPT !.op = "record_activity", !.user = u, !.act = act,
                                !.points0 = trust[u].points]
       IN /\ TrustWritable(u)
          /\ trust' = [trust EXCEPT ![u] =
               IF @.exists
               THEN [@ EXCEPT !.points = Greatest0(@ + PointsDelta(act)),
                              !.posts = IF act = "post_created" THEN @ + 1 ELSE @]
               ELSE @]
          /\ IF RecalcAfterActivity(act)
             THEN Goto(p, l, "rc_select")
             ELSE Return(p, l, "ok")
  /\ calls' = calls + 1
  /\ UNCHANGED_Invites

RecordActivity(p, mode) == RecordActivityOf(p, mode, "alice")

\* recalculate_trust_level called directly
StartRecalculate(p, mode) ==
  /\ CanStart(p, mode)
  /\ Goto(p, [NoLocals EXCEPT !.op = "recalculate_trust_level", !.user = "alice"],
          "rc_select")
  /\ calls' = calls + 1
  /\ UNCHANGED <<now, codes, rels, trust, lock, tlock>>

\* recalculate_trust_level: SELECT the metrics (fetch_one) and compute new_level
RecalcSelect(p) ==
  /\ pc[p] = "rc_select"
  /\ LET row == trust[loc[p].user] IN
       IF row.exists
       THEN Goto(p, [loc[p] EXCEPT !.lvl =
                 NewLevel(row.age, row.posts, row.points, row.flags, row.strikes)],
                 "rc_update")
       ELSE Return(p, loc[p], "err_row_not_found")
  /\ UNCHANGED <<now, codes, rels, trust, lock, tlock, calls>>

\* recalculate_trust_level: UPDATE trust_level = $1
RecalcUpdate(p) ==
  /\ pc[p] = "rc_update"
  /\ TrustWritable(loc[p].user)
  /\ trust' = [trust EXCEPT ![loc[p].user] =
                 IF @.exists THEN [@ EXCEPT !.level = loc[p].lvl] ELSE @]
  /\ Return(p, loc[p], "ok")
  /\ UNCHANGED <<now, codes, rels, lock, tlock, calls>>

\* add_strike called directly (by the moderation flow)
StartAddStrikeOf(p, mode, u) ==
  /\ CanStart(p, mode)
  /\ Goto(p, [NoLocals EXCEPT !.op = "add_strike", !.user = u,
                              !.oldban = trust[u].banned_until,
                              !.flags0 = trust[u].flags,
                              !.strikes0 = trust[u].strikes,
                              !.points0 = trust[u].points],
          "as_update")
  /\ calls' = calls + 1
  /\ UNCHANGED <<now, codes, rels, trust, lock, tlock>>

StartAddStrike(p, mode) == StartAddStrikeOf(p, mode, "alice")

\* add_strike: UPDATE strikes + 1, flags_received + 1, points - 50 RETURNING strikes
AddStrikeUpdate(p) ==
  /\ pc[p] = "as_update"
  /\ LET u == loc[p].user IN
       /\ TrustWritable(u)
       /\ IF trust[u].exists
          THEN /\ trust' = [trust EXCEPT ![u] =
                      [@ EXCEPT !.strikes = @ + 1, !.flags = @ + 1,
                                !.points = Greatest0(@ - 50)]]
               /\ Goto(p, [loc[p] EXCEPT !.strikes = trust[u].strikes + 1],
                       IF trust[u].strikes + 1 >= 3 THEN "as_ban" ELSE "rc_select")
          ELSE /\ UNCHANGED trust
               /\ Return(p, loc[p], "err_row_not_found")
  /\ UNCHANGED <<now, codes, rels, lock, tlock, calls>>

\* add_strike: ban_until = now + ban_duration_days; UPDATE banned_until, trust_level = 0
AddStrikeBan(p) ==
  /\ pc[p] = "as_ban"
  /\ LET u == loc[p].user
         ban_until == now + BanDurationDays(loc[p].strikes)
     IN /\ TrustWritable(u)
        /\ trust' = [trust EXCEPT ![u] =
             IF @.exists THEN [@ EXCEPT !.banned_until = ban_until, !.level = 0] ELSE @]
        /\ Goto(p, [loc[p] EXCEPT !.t = now, !.banat = ban_until], "rc_select")
  /\ UNCHANGED <<now, codes, rels, lock, tlock, calls>>

\* record_flag, first statement: UPDATE flags_received + 1, points - 10
RecordFlagOf(p, mode, u) ==
  /\ CanStart(p, mode)
  /\ /\ TrustWritable(u)
       /\ trust' = [trust EXCEPT ![u] =
            IF @.exists
            THEN [@ EXCEPT !.flags = @ + 1, !.points = Greatest0(@ - 10)]
            ELSE @]
       /\ Goto(p, [NoLocals EXCEPT !.op = "record_flag", !.user = u,
                                   !.oldban = trust[u].banned_until,
                                   !.flags0 = trust[u].flags,
                                   !.strikes0 = trust[u].strikes,
                                   !.points0 = trust[u].points],
               "rf_select")
  /\ calls' = calls + 1
  /\ UNCHANGED_Invites

RecordFlag(p, mode) == RecordFlagOf(p, mode, "alice")

\* record_flag: SELECT flags_received (fetch_one); every 10th flag calls add_strike
RecordFlagSelect(p) ==
  /\ pc[p] = "rf_select"
  /\ LET row == trust[loc[p].user] IN
       IF ~row.exists
       THEN Return(p, loc[p], "err_row_not_found")
       ELSE IF FlagStrikeDue(row.flags)
       THEN Goto(p, [loc[p] EXCEPT !.nested = TRUE], "as_update")
       ELSE Return(p, loc[p], "ok")
  /\ UNCHANGED <<now, codes, rels, trust, lock, tlock, calls>>

\* a statement of a trust call fails (`.await?`): the call returns the error and
\* the statements it ran before, each committed on its own, stay
TrustFail(p) ==
  /\ pc[p] \in {"rc_select", "rc_update", "as_update", "as_ban", "rf_select"}
  /\ Return(p, loc[p], "err_db")
  /\ UNCHANGED <<now, codes, rels, trust, lock, tlock, calls>>

\* set_trust_level (admin action): UPDATE trust_level = $1
SetTrustLevel(p, mode) ==
  /\ CanStart(p, mode)
  /\ \E level \in Levels :
       LET u == "alice" IN
       /\ TrustWritable(u)
       /\ trust' = [trust EXCEPT ![u] = IF @.exists THEN [@ EXCEPT !.level = level] ELSE @]
       /\ Return(p, [NoLocals EXCEPT !.op = "set_trust_level", !.user = u, !.lvl = level],
                 "ok")
  /\ calls' = calls + 1
  /\ UNCHANGED_Invites

(***************************************************************************)
(* ban_check_middleware (http/middleware/ban.rs) over is_banned            *)
(***************************************************************************)
\* is_banned: SELECT banned_until; Some(banned_until) => banned_until > now, else false
IsBanned(u, t) == trust[u].exists /\ BanActive(trust[u].banned_until, t)

\* an authenticated request of user u passes through the middleware
BanCheck(p, mode) ==
  /\ CanStart(p, mode)
  /\ \E u \in Users :
       Return(p, [NoLocals EXCEPT !.op = "ban_check", !.user = u, !.t = now],
              IF IsBanned(u, now) THEN "forbidden" ELSE "forwarded")
  /\ calls' = calls + 1
  /\ UNCHANGED <<now, codes, rels, trust, lock, tlock>>

(***************************************************************************)
(* InviteService (app/invites.rs)                                          *)
(***************************************************************************)
\* create_invite: invites_sent >= max_invites
InviteLimitReached_OffByOne(invites_sent, level) == invites_sent > MaxInvites(level)

InviteLimitReached(invites_sent, level) == invites_sent >= MaxInvites(level)

\* create_invite: SELECT trust_level, invites_sent; fail without a trust row or
\* when the limit is reached (the error carries max_invites)
CreateInviteSelect(p, mode) ==
  /\ CanStart(p, mode)
  /\ LET u == "alice"
         row == trust[u]
         l == [NoLocals EXCEPT !.op = "create_invite", !.user = u,
                               !.lvl = row.level, !.sent = row.invites_sent,
                               !.ncodes = Cardinality({c \in Codes : codes[c].exists})]
     IN IF ~row.exists THEN Return(p, l, "err_trust_not_found")
        ELSE IF InviteLimitReached(row.invites_sent, row.level)
        THEN Return(p, [l EXCEPT !.quota = MaxInvites(row.level)], "err_max_invites")
        ELSE Goto(p, l, "ci_generate")
  /\ calls' = calls + 1
  /\ UNCHANGED <<now, codes, rels, trust, lock, tlock>>

\* generate_unique_code: a random candidate that SELECT EXISTS reports unused
CreateInviteGenerate(p) ==
  /\ pc[p] = "ci_generate"
  /\ \E i \in 1..Len(GenCodes) :
       /\ ~codes[GenCodes[i]].exists
       /\ Goto(p, [loc[p] EXCEPT !.code = GenCodes[i]], "ci_insert")
  /\ UNCHANGED <<now, codes, rels, trust, lock, tlock, calls>>

\* create_invite: expires_at = now + days_valid; INSERT INTO invite_codes
\* (a duplicate key makes the statement fail)
CreateInviteInsert(p) ==
  /\ pc[p] = "ci_insert"
  /\ \E days \in DaysValid :
       LET c == loc[p].code IN
       IF codes[c].exists
       THEN /\ UNCHANGED codes
            /\ Return(p, loc[p], "err_duplicate_code")
       ELSE /\ codes' = [codes EXCEPT ![c] =
                    [SeedCode(1, now + days) EXCEPT !.created_by = loc[p].user]]
            /\ Goto(p, [loc[p] EXCEPT !.t = now], "ci_count")
  /\ UNCHANGED <<now, rels, trust, lock, tlock, calls>>

\* create_invite: UPDATE invites_sent = invites_sent + 1
CreateInviteCount(p) ==
  /\ pc[p] = "ci_count"
  /\ TrustWritable(loc[p].user)
  /\ trust' = [trust EXCEPT ![loc[p].user] =
                 IF @.exists THEN [@ EXCEPT !.invites_sent = @ + 1] ELSE @]
  /\ Return(p, loc[p], "ok")
  /\ UNCHANGED <<now, codes, rels, lock, tlock, calls>>

\* consume_invite: begin a transaction for a new user, on a code of cs
StartConsume(p, mode, cs) ==
  /\ CanStart(p, mode)
  /\ \E c \in cs :
       Goto(p, [NoLocals EXCEPT !.op = "consume_invite", !.code = c,
                                !.newu = calls + 1], "co_select")
  /\ calls' = calls + 1
  /\ UNCHANGED <<now, codes, rels, trust, lock, tlock>>

\* SELECT ... FOR UPDATE on code c: it waits while another transaction holds the
\* row lock and leaves the lock with p
SelectForUpdate_Plain(p, c) == [ready |-> TRUE, lock |-> lock]

SelectForUpdate(p, c) == [ready |-> lock[c] = Null, lock |-> [lock EXCEPT ![c] = p]]

\* is_fully_used = use_count + 1 >= max_uses
IsFullyUsed_Strict(use_count, max_uses) == use_count + 1 > max_uses

IsFullyUsed(use_count, max_uses) == use_count + 1 >= max_uses

\* consume_invite: the validation checks on the selected row, in order
Validate_SkipsRevoked(row, t) ==
  IF row.expires_at < t THEN "err_expired"
  ELSE IF row.use_count >= row.max_uses THEN "err_fully_used"
  ELSE "ok"

Validate(row, t) ==
  IF ~row.is_valid THEN "err_revoked"
  ELSE IF row.expires_at < t THEN "err_expired"
  ELSE IF row.use_count >= row.max_uses THEN "err_fully_used"
  ELSE "ok"

\* consume_invite: SELECT ... FOR UPDATE (waits for the row lock), then the
\* validation checks; an early return drops the transaction and its lock
ConsumeSelect(p) ==
  /\ pc[p] = "co_select"
  /\ LET c == loc[p].code
         row == codes[c]
         l == [loc[p] EXCEPT !.r = row, !.t = now]
     IN IF ~row.exists
        THEN /\ Return(p, l, "err_invalid_code")
             /\ UNCHANGED lock
        ELSE /\ SelectForUpdate(p, c).ready
             /\ IF Validate(row, now) # "ok"
                THEN Return(p, l, Validate(row, now)) /\ UNCHANGED lock
                ELSE Goto(p, l, "co_update") /\ lock' = SelectForUpdate(p, c).lock
  /\ UNCHANGED <<now, codes, rels, trust, tlock, calls>>

\* consume_invite: UPDATE invite_codes SET used_by, use_count = use_count + 1,
\* is_valid = !is_fully_used; the statement takes the row lock and its write stays
\* in the transaction until COMMIT
ConsumeUpdate(p) ==
  /\ pc[p] = "co_update"
  /\ lock[loc[p].code] \in {Null, p}
  /\ lock' = [lock EXCEPT ![loc[p].code] = p]
  /\ Goto(p, [loc[p] EXCEPT !.wcode = TRUE], "co_relate")
  /\ UNCHANGED <<now, codes, rels, trust, tlock, calls>>

\* consume_invite: INSERT INTO invite_relationships (in the transaction)
ConsumeRelate(p) ==
  /\ pc[p] = "co_relate"
  /\ Goto(p, [loc[p] EXCEPT !.wrel = TRUE], "co_reward")
  /\ UNCHANGED <<now, codes, rels, trust, lock, tlock, calls>>

\* consume_invite: UPDATE user_trust_scores SET successful_invites + 1,
\* trust_points + 10 of the inviter (takes the trust row's lock until COMMIT)
ConsumeReward(p) ==
  /\ pc[p] = "co_reward"
  /\ LET u == loc[p].r.created_by IN
       /\ tlock[u] \in {Null, p}
       /\ tlock' = [tlock EXCEPT ![u] = IF trust[u].exists THEN p ELSE @]
  /\ Goto(p, [loc[p] EXCEPT !.wtrust = TRUE], "co_commit")
  /\ UNCHANGED <<now, codes, rels, trust, lock, calls>>

\* consume_invite: COMMIT makes the three writes visible and releases the locks
ConsumeCommit(p) ==
  /\ pc[p] = "co_commit"
  /\ LET c == loc[p].code
         u == loc[p].r.created_by
     IN /\ codes' = [codes EXCEPT ![c] =
              [@ EXCEPT !.used_by = loc[p].newu,
                        !.use_count = @ + 1,
                        !.is_valid = ~IsFullyUsed(loc[p].r.use_count, loc[p].r.max_uses)]]
        /\ rels' = rels \cup {<<u, loc[p].newu, c>>}
        /\ trust' = [trust EXCEPT ![u] =
              IF @.exists
              THEN [@ EXCEPT !.successful_invites = @ + 1, !.points = @ + 10]
              ELSE @]
        /\ lock' = [lock EXCEPT ![c] = Null]
        /\ tlock' = [tlock EXCEPT ![u] = IF @ = p THEN Null ELSE @]
  /\ Return(p, loc[p], "ok")
  /\ UNCHANGED <<now, calls>>

\* a transaction dropped without COMMIT: none of its writes reach the tables
RolledBack_KeepsCodeUpdate(p) ==
  [codes |-> IF loc[p].wcode
             THEN [codes EXCEPT ![loc[p].code].use_count = @ + 1,
                                ![loc[p].code].used_by = loc[p].newu]
             ELSE codes,
   rels |-> rels, trust |-> trust]

RolledBack(p) == [codes |-> codes, rels |-> rels, trust |-> trust]

\* consume_invite: a statement of the transaction or the COMMIT fails; `?` returns
\* the error, tx is dropped, the transaction rolls back and its locks are released
ConsumeFail(p) ==
  /\ pc[p] \in {"co_update", "co_relate", "co_reward", "co_commit"}
  /\ codes' = RolledBack(p).codes
  /\ rels' = RolledBack(p).rels
  /\ trust' = RolledBack(p).trust
  /\ lock' = [c \in Codes |-> IF lock[c] = p THEN Null ELSE lock[c]]
  /\ tlock' = [u \in Users |-> IF tlock[u] = p THEN Null ELSE tlock[u]]
  /\ Return(p, loc[p], "err_db")
  /\ UNCHANGED <<now, calls>>

\* revoke_invite: UPDATE is_valid = FALSE WHERE code AND created_by AND is_valid
RevokeInvite_AnyUser(p, mode) ==
  /\ CanStart(p, mode)
  /\ \E c \in RevokeTargets, u \in Users :
       LET hit == codes[c].exists /\ codes[c].is_valid IN
       /\ lock[c] = Null
       /\ codes' = [codes EXCEPT ![c] = IF hit THEN [@ EXCEPT !.is_valid = FALSE] ELSE @]
       /\ Return(p, [NoLocals EXCEPT !.op = "revoke_invite", !.code = c, !.user = u],
                 IF hit THEN "true" ELSE "false")
  /\ calls' = calls + 1
  /\ UNCHANGED <<now, rels, trust, lock, tlock>>

RevokeInvite(p, mode) ==
  /\ CanStart(p, mode)
  /\ \E c \in RevokeTargets, u \in Users :
       LET hit == codes[c].exists /\ codes[c].created_by = u /\ codes[c].is_valid IN
       /\ lock[c] = Null
       /\ codes' = [codes EXCEPT ![c] = IF hit THEN [@ EXCEPT !.is_valid = FALSE] ELSE @]
       /\ Return(p, [NoLocals EXCEPT !.op = "revoke_invite", !.code = c, !.user = u],
                 IF hit THEN "true" ELSE "false")
  /\ calls' = calls + 1
  /\ UNCHANGED <<now, rels, trust, lock, tlock>>

(***************************************************************************)
(* Specifications of the store                                             *)
(***************************************************************************)
\* ---------------------------------------------------------------------------
\* Rate limiter: window counters in the cache, and rate_limit_middleware
\* ---------------------------------------------------------------------------

HourSeconds == 3600
DaySeconds == 86400
\* min_remaining starts at u32::MAX, above every quota of the table: Null stands for
\* it, and any remaining quota is below it
Below_Largest(remaining, min_remaining) == min_remaining = Null \/ remaining > min_remaining

Below(remaining, min_remaining) == min_remaining = Null \/ remaining < min_remaining

RateActions == {"post", "follow"}
RateLevels == {New, Basic}

\* RateLimits::for_trust_level
ForTrustLevel_VerifiedLoginCut(level) ==
  IF level = New THEN
    [posts_per_hour |-> 1, posts_per_day |-> 5, follows_per_hour |-> 5,
     follows_per_day |-> 20, unfollows_per_day |-> 10, likes_per_hour |-> 30,
     comments_per_hour |-> 10, login_attempts_per_hour |-> 5]
  ELSE IF level = Basic THEN
    [posts_per_hour |-> 5, posts_per_day |-> 20, follows_per_hour |-> 20,
     follows_per_day |-> 100, unfollows_per_day |-> 50, likes_per_hour |-> 100,
     comments_per_hour |-> 30, login_attempts_per_hour |-> 10]
  ELSE IF level = Trusted THEN
    [posts_per_hour |-> 20, posts_per_day |-> 100, follows_per_hour |-> 100,
     follows_per_day |-> 500, unfollows_per_day |-> 200, likes_per_hour |-> 500,
     comments_per_hour |-> 100, login_attempts_per_hour |-> 20]
  ELSE
    [posts_per_hour |-> 50, posts_per_day |-> 200, follows_per_hour |-> 200,
     follows_per_day |-> 1000, unfollows_per_day |-> 500, likes_per_hour |-> 1000,
     comments_per_hour |-> 200, login_attempts_per_hour |-> 15]

ForTrustLevel(level) ==
  IF level = New THEN
    [posts_per_hour |-> 1, posts_per_day |-> 5, follows_per_hour |-> 5,
     follows_per_day |-> 20, unfollows_per_day |-> 10, likes_per_hour |-> 30,
     comments_per_hour |-> 10, login_attempts_per_hour |-> 5]
  ELSE IF level = Basic THEN
    [posts_per_hour |-> 5, posts_per_day |-> 20, follows_per_hour |-> 20,
     follows_per_day |-> 100, unfollows_per_day |-> 50, likes_per_hour |-> 100,
     comments_per_hour |-> 30, login_attempts_per_hour |-> 10]
  ELSE IF level = Trusted THEN
    [posts_per_hour |-> 20, posts_per_day |-> 100, follows_per_hour |-> 100,
     follows_per_day |-> 500, unfollows_per_day |-> 200, likes_per_hour |-> 500,
     comments_per_hour |-> 100, login_attempts_per_hour |-> 20]
  ELSE
    [posts_per_hour |-> 50, posts_per_day |-> 200, follows_per_hour |-> 200,
     follows_per_day |-> 1000, unfollows_per_day |-> 500, likes_per_hour |-> 1000,
     comments_per_hour |-> 200, login_attempts_per_hour |-> 30]

\* check_rate_limit: the limit paired with each window of an action
RateLimit(level, action, window) ==
  LET limits == ForTrustLevel(level)
      t == <<action, window>>
  IN CASE t = <<"post", "hour">> -> limits.posts_per_hour
       [] t = <<"post", "day">> -> limits.posts_per_day
       [] t = <<"follow", "hour">> -> limits.follows_per_hour
       [] t = <<"follow", "day">> -> limits.follows_per_day
       [] t = <<"unfollow", "day">> -> limits.unfollows_per_day
       [] t = <<"like", "hour">> -> limits.likes_per_hour
       [] t = <<"comment", "hour">> -> limits.comments_per_hour
       [] t = <<"login", "hour">> -> limits.login_attempts_per_hour

\* RateWindow::seconds
Seconds(window) == IF window = "hour" THEN HourSeconds ELSE DaySeconds

\* the actions of the rate table that have an hourly window only
HourlyActions ==
  {"like", "comment", "login", "feed", "notifications", "search", "media", "moderation"}

\* check_rate_limit: the windows checked for an action, in order; none for an
\* action name outside the table
Checks_DayFirst(action) ==
  CASE action \in {"post", "follow"} -> <<"day", "hour">>
    [] action = "unfollow" -> <<"day">>
    [] action \in HourlyActions -> <<"hour">>
    [] OTHER -> <<>>

Checks(action) ==
  CASE action \in {"post", "follow"} -> <<"hour", "day">>
    [] action = "unfollow" -> <<"day">>
    [] action \in HourlyActions -> <<"hour">>
    [] OTHER -> <<>>

\* increment: the windows counted for an action; none for an unknown action
IncrementWindows(action) ==
  CASE action \in {"post", "follow"} -> <<"hour", "day">>
    [] action = "unfollow" -> <<"day">>
    [] action \in HourlyActions -> <<"hour">>
    [] OTHER -> <<>>

\* check_rate_limit: the result for an action name outside the table
PassThrough_Limited == [limited |-> TRUE, limit |-> 0, remaining |-> 0]

PassThrough == [limited |-> FALSE, limit |-> 0, remaining |-> 0]

\* u32::saturating_sub
SaturatingSub(a, b) == IF a >= b THEN a - b ELSE 0

\* check_rate_limit: count >= limit
OverLimit_Strict(count, limit) == count > limit

OverLimit(count, limit) == count >= limit

VARIABLES
  clock,      \* SystemTime::now() in seconds
  cache,      \* the counter keys: count (0 when the key is absent) and expiry time
  rpc,        \* position of each request in rate_limit_middleware
  rloc,       \* locals of each request
  requests,   \* requests started so far
  admitted,   \* per key, the requests the middleware forwarded to the handler
  passed,     \* per key, the requests whose check read the key and passed
  counted,    \* per key, the INCR commands that succeeded
  peak        \* the largest number of requests that were in flight together

rateVars == <<clock, cache, rpc, rloc, requests, admitted, passed, counted, peak>>

MaxClock == MaxTicks * TickSeconds

\* "ratelimit:{user_id}:{action}:{window index}", for one user; the window is
\* told apart by its length
Key(action, window, idx) == [action |-> action, window |-> window, idx |-> idx]

Keys ==
  { Key(a, w, i) : a \in RateActions, w \in {"hour", "day"},
                   i \in 0..(MaxClock \div HourSeconds) }

\* current_window
CurrentWindow_Frozen(window, t) == 0

CurrentWindow(window, t) == t \div Seconds(window)

CurrentKey(action, window) == Key(action, window, CurrentWindow(window, clock))

Absent == [count |-> 0, expires |-> Null]

NoInfo == [limited |-> FALSE, limit |-> 0, remaining |-> 0]

NoRequest ==
  [action |-> "post", level |-> New, i |-> 1, reads |-> 0, key |-> Key("post", "hour", 0),
   count |-> 0, min_remaining |-> Null, effective_limit |-> 0, info |-> NoInfo,
   conn_failed |-> FALSE, read_failed |-> FALSE, inc_failed |-> FALSE, keys |-> {},
   incs |-> 0, handler |-> "none", ret |-> "none", limits |-> ForTrustLevel(New)]

RateInit ==
  /\ clock = 0
  /\ cache = [k \in Keys |-> Absent]
  /\ rpc = [p \in Procs |-> "idle"]
  /\ rloc = [p \in Procs |-> NoRequest]
  /\ requests = 0
  /\ admitted = [k \in Keys |-> 0]
  /\ passed = [k \in Keys |-> 0]
  /\ counted = [k \in Keys |-> 0]
  /\ peak = 0

\* how requests arrive and whether cache commands can fail
RateMode(conc, max, faulty) == [conc |-> conc, max |-> max, faulty |-> faulty]

\* outcomes of one cache command: TRUE for success
Outcomes(mode) == IF mode.faulty THEN {TRUE, FALSE} ELSE {TRUE}

\* conn.get(&key).await.unwrap_or(0): an absent key and a failed read both give 0
GetOrZero(k, ok) == IF ok THEN cache[k].count ELSE 0

RateIdle == \A q \in Procs : rpc[q] = "idle"

\* the response of the middleware; a forwarded request is counted per window key
Respond(p, l, result) ==
  /\ rpc' = [rpc EXCEPT ![p] = "done"]
  /\ rloc' = [rloc EXCEPT ![p] = [l EXCEPT !.ret = result]]
  /\ admitted' =
       IF result = "forwarded"
       THEN [k \in Keys |->
               IF \E i \in 1..Len(Checks(l.action)) :
                    k = CurrentKey(l.action, Checks(l.action)[i])
               THEN admitted[k] + 1 ELSE admitted[k]]
       ELSE admitted
  /\ passed' = passed

Step(p, l, label) ==
  /\ rpc' = [rpc EXCEPT ![p] = label]
  /\ rloc' = [rloc EXCEPT ![p] = l]
  /\ admitted' = admitted
  /\ passed' = passed

\* check_rate_limit returns limited = false: the request has passed under every
\* key it read
Pass(p, l) ==
  /\ rpc' = [rpc EXCEPT ![p] = "inc_connect"]
  /\ rloc' = [rloc EXCEPT ![p] = l]
  /\ admitted' = admitted
  /\ passed' = [k \in Keys |-> IF k \in l.keys THEN passed[k] + 1 ELSE passed[k]]

\* the requests inside the middleware
InFlight == {q \in Procs : rpc[q] \notin {"idle", "done"}}

\* rate_limit_middleware: an authenticated request for a limited action arrives;
\* the trust level is the one stored for the user at that moment
RequestStartAs(p, mode, actions, levels) ==
  /\ rpc[p] = "idle"
  /\ requests < mode.max
  /\ mode.conc \/ RateIdle
  /\ \E a \in actions, lv \in levels :
       Step(p, [NoRequest EXCEPT !.action = a, !.level = lv], "connect")
  /\ requests' = requests + 1
  /\ peak' = IF Cardinality(InFlight) + 1 > peak THEN Cardinality(InFlight) + 1 ELSE peak
  /\ UNCHANGED <<clock, cache, counted>>

RequestStart(p, mode) == RequestStartAs(p, mode, RateActions, RateLevels)

\* check_rate_limit: limits = RateLimits::for_trust_level(trust_level); an action
\* name outside the table returns at once; otherwise
\* get_multiplexed_async_connection().await?
CheckConnect(p, mode) ==
  /\ rpc[p] = "connect"
  /\ LET l == [rloc[p] EXCEPT !.limits = ForTrustLevel(rloc[p].level)] IN
     IF Len(Checks(l.action)) = 0
     THEN IF PassThrough.limited
          THEN Respond(p, [l EXCEPT !.info = PassThrough], "rate_limited")
          ELSE Pass(p, [l EXCEPT !.info = PassThrough])
     ELSE \E ok \in Outcomes(mode) :
            IF ok THEN Step(p, l, "check")
            ELSE Respond(p, [l EXCEPT !.conn_failed = TRUE], "internal_error")
  /\ UNCHANGED <<clock, cache, requests, counted, peak>>

\* check_rate_limit: one iteration of the loop over the windows
CheckWindow(p, mode) ==
  /\ rpc[p] = "check"
  /\ \E ok \in Outcomes(mode) :
       LET l == rloc[p]
           window == Checks(l.action)[l.i]
           limit == RateLimit(l.level, l.action, window)
           count == GetOrZero(CurrentKey(l.action, window), ok)
           remaining == SaturatingSub(limit, count)
           tighter == Below(remaining, l.min_remaining)
           l1 == [l EXCEPT !.reads = @ + 1,
                           !.keys = @ \cup {CurrentKey(l.action, window)},
                           !.read_failed = @ \/ ~ok,
                           !.count = count,
                           !.min_remaining = IF tighter THEN remaining ELSE @,
                           !.effective_limit = IF tighter THEN limit ELSE @]
       IN IF OverLimit(count, limit)
          THEN Respond(p, [l1 EXCEPT !.info = [limited |-> TRUE, limit |-> limit,
                                               remaining |-> 0]], "rate_limited")
          ELSE IF l.i < Len(Checks(l.action))
          THEN Step(p, [l1 EXCEPT !.i = @ + 1], "check")
          ELSE Pass(p, [l1 EXCEPT !.i = 1,
                                  !.info = [limited |-> FALSE,
                                            limit |-> l1.effective_limit,
                                            remaining |-> l1.min_remaining]])
  /\ UNCHANGED <<clock, cache, requests, counted, peak>>

\* increment: an unknown action returns Ok at once; otherwise
\* get_multiplexed_async_connection().await?; the middleware only logs an error
\* of increment and forwards the request
IncrementConnect(p, mode) ==
  /\ rpc[p] = "inc_connect"
  /\ IF Len(IncrementWindows(rloc[p].action)) = 0
     THEN Respond(p, rloc[p], "forwarded")
     ELSE \E ok \in Outcomes(mode) :
            IF ok THEN Step(p, rloc[p], "inc_get")
            ELSE Respond(p, [rloc[p] EXCEPT !.inc_failed = TRUE], "forwarded")
  /\ UNCHANGED <<clock, cache, requests, counted, peak>>

\* increment: the key of the window and its current count
IncrementGet(p, mode) ==
  /\ rpc[p] = "inc_get"
  /\ \E ok \in Outcomes(mode) :
       LET l == rloc[p]
           k == CurrentKey(l.action, IncrementWindows(l.action)[l.i])
       IN Step(p, [l EXCEPT !.key = k, !.count = GetOrZero(k, ok)], "inc_incr")
  /\ UNCHANGED <<clock, cache, requests, counted, peak>>

\* increment: after the last window the request is forwarded
NextWindow(p, l) ==
  IF l.i < Len(IncrementWindows(l.action))
  THEN Step(p, [l EXCEPT !.i = @ + 1], "inc_get")
  ELSE Respond(p, l, "forwarded")

\* INCR: the cache adds one to the value it holds; the count read before plays
\* no part
Incr_ReadModifyWrite(k, read) == read + 1

Incr(k, read) == cache[k].count + 1

\* increment: conn.incr(&key, 1).await?
IncrementIncr(p, mode) ==
  /\ rpc[p] = "inc_incr"
  /\ \E ok \in Outcomes(mode) :
       LET l == rloc[p] IN
       IF ~ok THEN /\ Respond(p, [l EXCEPT !.inc_failed = TRUE], "forwarded")
                   /\ UNCHANGED <<cache, counted>>
       ELSE /\ cache' = [cache EXCEPT ![l.key].count = Incr(l.key, l.count)]
            /\ counted' = [counted EXCEPT ![l.key] = @ + 1]
            /\ IF l.count = 0 THEN Step(p, [l EXCEPT !.incs = @ + 1], "inc_expire")
               ELSE NextWindow(p, [l EXCEPT !.incs = @ + 1])
  /\ UNCHANGED <<clock, requests, peak>>

\* increment: conn.expire(&key, window_seconds).await?
IncrementExpire(p, mode) ==
  /\ rpc[p] = "inc_expire"
  /\ \E ok \in Outcomes(mode) :
       LET l == rloc[p] IN
       IF ~ok THEN /\ Respond(p, [l EXCEPT !.inc_failed = TRUE], "forwarded")
                   /\ cache' = cache
       ELSE /\ cache' = IF cache[l.key].count > 0
                        THEN [cache EXCEPT ![l.key].expires =
                                             clock + Seconds(l.key.window)]
                        ELSE cache
            /\ NextWindow(p, l)
  /\ UNCHANGED <<clock, requests, counted, peak>>

\* get_remaining: the actions with an hourly quota it knows; any other gives 0
RemainingActions == {"post", "follow", "like", "comment"}

\* get_remaining, as get_rate_limits calls it (an Err becomes 0): the hourly limit
\* of the level less the count of the current hour key, never below 0
GetRemaining(p, mode, actions, levels) ==
  /\ rpc[p] = "idle"
  /\ requests < mode.max
  /\ mode.conc \/ RateIdle
  /\ \E a \in actions, lv \in levels, conn \in Outcomes(mode), ok \in Outcomes(mode) :
       LET limit == IF a \in RemainingActions THEN RateLimit(lv, a, "hour") ELSE 0
           count == IF a \in RemainingActions /\ conn
                    THEN GetOrZero(CurrentKey(a, "hour"), ok) ELSE 0
           remaining == IF a \in RemainingActions /\ conn
                        THEN SaturatingSub(limit, count) ELSE 0
       IN Respond(p, [NoRequest EXCEPT !.action = a, !.level = lv, !.count = count,
                                       !.conn_failed = ~conn, !.read_failed = ~ok,
                                       !.info = [limited |-> FALSE, limit |-> limit,
                                                 remaining |-> remaining]],
                  "remaining")
  /\ requests' = requests + 1
  /\ UNCHANGED <<clock, cache, counted, peak>>

\* the response has been sent
RequestFinish(p) ==
  /\ rpc[p] = "done"
  /\ rpc' = [rpc EXCEPT ![p] = "idle"]
  /\ UNCHANGED <<clock, cache, rloc, requests, admitted, passed, counted, peak>>

\* time passes between requests; the cache drops the keys whose expiry is reached
RateTick ==
  /\ RateIdle
  /\ clock + TickSeconds <= MaxClock
  /\ clock' = clock + TickSeconds
  /\ cache' = [k \in Keys |->
                 IF cache[k].expires # Null /\ cache[k].expires <= clock'
                 THEN Absent ELSE cache[k]]
  /\ UNCHANGED <<rpc, rloc, requests, admitted, passed, counted, peak>>

\* time passes while requests are inside the middleware
RateTickAny ==
  /\ ~RateIdle
  /\ clock + TickSeconds <= MaxClock
  /\ clock' = clock + TickSeconds
  /\ cache' = [k \in Keys |->
                 IF cache[k].expires # Null /\ cache[k].expires <= clock'
                 THEN Absent ELSE cache[k]]
  /\ UNCHANGED <<rpc, rloc, requests, admitted, passed, counted, peak>>

\* next.run(request): the handler of the gated action answers, with success or
\* with an error
HandlerReturns(p) ==
  /\ rpc[p] = "done"
  /\ rloc[p].ret = "forwarded"
  /\ rloc[p].handler = "none"
  /\ \E result \in {"ok", "failed"} :
       rloc' = [rloc EXCEPT ![p].handler = result]
  /\ UNCHANGED <<clock, cache, rpc, requests, admitted, passed, counted, peak>>

(***************************************************************************)
(* FingerprintService (app/fingerprint.rs)                                 *)
(***************************************************************************)
\* fingerprint hashes and the user ids that register devices; seeded devices hold
\* the users 1..n, so 1 and 2 are known to them and 21 and 22 are new
Hashes == {"h1"}
DeviceUserIds == {1, 2, 21, 22}

VARIABLES
  devices   \* table device_fingerprints, one row per fingerprint hash

deviceVars == <<devices>>

\* a hash with no row
NoDevice ==
  [exists |-> FALSE, user_ids |-> <<>>, account_count |-> 0, risk_score |-> 0,
   is_blocked |-> FALSE, last_seen |-> 0]

\* a device that n users registered one after the other, with its risk score
\* (lowered where unblock_device has halved it)
SeenDevice(n, risk) ==
  [exists |-> TRUE, user_ids |-> [i \in 1..n |-> i], account_count |-> n,
   risk_score |-> risk, is_blocked |-> FALSE, last_seen |-> 0]

DeviceSeeds ==
  { NoDevice, SeenDevice(2, 5), SeenDevice(5, 40), SeenDevice(6, 55),
    SeenDevice(7, 85), SeenDevice(10, 50), SeenDevice(11, 25) }

NoDevices == devices = [h \in Hashes |-> NoDevice]

DevicesInit(seeds) == \E d \in seeds : devices = [h \in Hashes |-> d]

\* register_fingerprint: risk_increase by account_count
RiskIncrease_CountsNewUser(account_count) ==
  IF account_count + 1 \in 0..2 THEN 5
  ELSE IF account_count + 1 \in 3..5 THEN 15
  ELSE IF account_count + 1 \in 6..10 THEN 30
  ELSE 50

RiskIncrease(account_count) ==
  IF account_count \in 0..2 THEN 5
  ELSE IF account_count \in 3..5 THEN 15
  ELSE IF account_count \in 6..10 THEN 30
  ELSE 50

\* (risk_score + risk_increase).min(100)
CapRisk(x) == IF x > 100 THEN 100 ELSE x

\* user_ids.contains(&user_id)
Contains_Never(user_ids, uid) == FALSE

Contains(user_ids, uid) == \E i \in 1..Len(user_ids) : user_ids[i] = uid

\* if is_blocked { return Ok(DeviceInfo { .., is_blocked: true }) }
IsBlocked_Never(row) == FALSE

IsBlocked(row) == row.exists /\ row.is_blocked

\* register_fingerprint: SELECT the row of the hash; a blocked device returns at once
RegisterSelect(p, mode) ==
  /\ CanStart(p, mode)
  /\ \E h \in Hashes, uid \in DeviceUserIds \cup {Null} :
       LET row == devices[h]
           l == [NoLocals EXCEPT !.op = "register_fingerprint", !.hash = h,
                                 !.uid = uid, !.dev = row, !.t = now]
       IN IF IsBlocked(row)
          THEN Return(p, [l EXCEPT !.info = row], "ok")
          ELSE Goto(p, l, "rg_write")
  /\ calls' = calls + 1
  /\ UNCHANGED <<now, codes, rels, trust, lock, tlock, devices>>

\* handler register_device_fingerprint: check_device_risk answers (0, false) for an
\* unknown hash; a blocked device is refused as forbidden before anything is written
RegisterDeviceCheck(p, mode) ==
  /\ CanStart(p, mode)
  /\ \E h \in Hashes, uid \in DeviceUserIds \cup {Null} :
       LET row == devices[h]
           is_blocked == IF row.exists THEN row.is_blocked ELSE FALSE
           l == [NoLocals EXCEPT !.op = "register_device", !.hash = h,
                                 !.uid = uid, !.dev = row, !.handler = TRUE,
                                 !.t = now]
       IN IF is_blocked
          THEN Return(p, l, "forbidden")
          ELSE Goto(p, l, "rg_select")
  /\ calls' = calls + 1
  /\ UNCHANGED <<now, codes, rels, trust, lock, tlock, devices>>

\* handler register_device_fingerprint: the call of register_fingerprint, whose
\* DeviceInfo the handler drops (Ok gives 204, Err gives an internal error)
RegisterDeviceSelect(p) ==
  /\ pc[p] = "rg_select"
  /\ LET row == devices[loc[p].hash]
         l == [loc[p] EXCEPT !.op = "register_fingerprint", !.dev = row,
                             !.t = now]
     IN IF IsBlocked(row)
        THEN Return(p, [l EXCEPT !.info = row], "ok")
        ELSE Goto(p, l, "rg_write")
  /\ UNCHANGED <<now, codes, rels, trust, lock, tlock, calls, devices>>

\* register_fingerprint: the UPDATE or INSERT that follows, computed from the row
\* the SELECT returned; a second INSERT of a hash fails on its unique key
RegisterWrite(p) ==
  /\ pc[p] = "rg_write"
  /\ LET l == loc[p]
         h == l.hash
         row == l.dev
         user_ids == Append(row.user_ids, l.uid)
         risk_score == CapRisk(row.risk_score + RiskIncrease(row.account_count))
     IN IF row.exists
        THEN IF l.uid # Null /\ ~Contains(row.user_ids, l.uid)
             THEN /\ devices' = [devices EXCEPT ![h] =
                        [@ EXCEPT !.user_ids = user_ids,
                                  !.account_count = Len(user_ids),
                                  !.risk_score = risk_score,
                                  !.last_seen = now]]
                  /\ Return(p, [l EXCEPT !.info =
                        [row EXCEPT !.user_ids = user_ids,
                                    !.account_count = Len(user_ids),
                                    !.risk_score = risk_score]], "ok")
             ELSE /\ devices' = [devices EXCEPT ![h].last_seen = now]
                  /\ Return(p, [l EXCEPT !.info = row], "ok")
        ELSE IF devices[h].exists
             THEN /\ UNCHANGED devices
                  /\ Return(p, l, "err_db")
             ELSE LET new == [exists |-> TRUE,
                              user_ids |-> IF l.uid # Null THEN <<l.uid>> ELSE <<>>,
                              account_count |-> IF l.uid # Null THEN 1 ELSE 0,
                              risk_score |-> 0, is_blocked |-> FALSE,
                              last_seen |-> now]
                  IN /\ devices' = [devices EXCEPT ![h] = new]
                     /\ Return(p, [l EXCEPT !.info = new], "ok")
  /\ UNCHANGED <<now, codes, rels, trust, lock, tlock, calls>>

\* block_device: UPDATE is_blocked = TRUE
BlockDevice(p, mode) ==
  /\ CanStart(p, mode)
  /\ \E h \in Hashes :
       /\ devices' = [devices EXCEPT ![h] =
            IF @.exists THEN [@ EXCEPT !.is_blocked = TRUE] ELSE @]
       /\ Return(p, [NoLocals EXCEPT !.op = "block_device", !.hash = h,
                                     !.dev = devices[h]], "ok")
  /\ calls' = calls + 1
  /\ UNCHANGED <<now, codes, rels, trust, lock, tlock>>

\* unblock_device: UPDATE is_blocked = FALSE, risk_score = risk_score / 2
UnblockDevice(p, mode) ==
  /\ CanStart(p, mode)
  /\ \E h \in Hashes :
       /\ devices' = [devices EXCEPT ![h] =
            IF @.exists
            THEN [@ EXCEPT !.is_blocked = FALSE, !.risk_score = @ \div 2]
            ELSE @]
       /\ Return(p, [NoLocals EXCEPT !.op = "unblock_device", !.hash = h,
                                     !.dev = devices[h]], "ok")
  /\ calls' = calls + 1
  /\ UNCHANGED <<now, codes, rels, trust, lock, tlock>>

(***************************************************************************)
(* AuthService::signup (app/auth.rs)                                       *)
(***************************************************************************)
VARIABLES
  users     \* table users: the handles that have an account

userVars == <<users>>

\* every user with a trust record has an account
UsersInit == users = { u \in Users : trust[u].exists }

SignupCodes == {"seed", "k1"}

\* INSERT INTO users ... fetch_one(&mut *tx): the row stays in the transaction
TxInsertUser_OnPool(us, h) == us \cup {h}

TxInsertUser(us, h) == us

\* signup: begin a transaction for a handle and an invite code
StartSignup(p, mode) ==
  /\ CanStart(p, mode)
  /\ \E c \in SignupCodes, h \in Users :
       Goto(p, [NoLocals EXCEPT !.op = "signup", !.code = c, !.user = h,
                                !.newu = calls + 1], "su_insert")
  /\ calls' = calls + 1
  /\ UNCHANGED <<now, codes, rels, trust, lock, tlock, users>>

\* signup: INSERT INTO users; a taken handle violates users_handle_key, and the
\* INSERT waits while another transaction holds an uncommitted row of the handle
SignupInsertUser(p) ==
  /\ pc[p] = "su_insert"
  /\ \A q \in Procs \ {p} : ~(loc[q].wuser /\ loc[q].user = loc[p].user)
  /\ IF loc[p].user \in users
     THEN Return(p, loc[p], "err_conflict") /\ UNCHANGED users
     ELSE /\ users' = TxInsertUser(users, loc[p].user)
          /\ Goto(p, [loc[p] EXCEPT !.wuser = TRUE], "su_init")
  /\ UNCHANGED <<now, codes, rels, trust, lock, tlock, calls>>

\* signup: initialize_user_with_tx inserts the trust record in the transaction
SignupInitTrust(p) ==
  /\ pc[p] = "su_init"
  /\ Goto(p, [loc[p] EXCEPT !.winit = TRUE], "su_consume")
  /\ UNCHANGED <<now, codes, rels, trust, lock, tlock, calls, users>>

\* signup: consume_invite_with_tx locks the code row, validates it and writes the
\* redemption in the transaction; a code that is unknown, revoked, expired or
\* fully used is an error, `?` returns it and the dropped transaction rolls back
SignupConsume(p) ==
  /\ pc[p] = "su_consume"
  /\ LET c == loc[p].code
         row == codes[c]
         l == [loc[p] EXCEPT !.r = row, !.t = now, !.wuser = FALSE]
     IN IF ~row.exists
        THEN Return(p, l, "err_invalid_code") /\ UNCHANGED <<lock, tlock>>
        ELSE /\ lock[c] = Null
             /\ IF Validate(row, now) # "ok"
                THEN Return(p, l, Validate(row, now)) /\ UNCHANGED <<lock, tlock>>
                ELSE /\ tlock[row.created_by] = Null
                     /\ lock' = [lock EXCEPT ![c] = p]
                     /\ tlock' = [tlock EXCEPT ![row.created_by] = p]
                     /\ Goto(p, [loc[p] EXCEPT !.r = row, !.t = now,
                                               !.wcode = TRUE, !.wrel = TRUE,
                                               !.wtrust = TRUE], "su_commit")
  /\ UNCHANGED <<now, codes, rels, trust, calls, users>>

\* signup: tx.commit() makes the user, the trust record and the redemption
\* visible together and releases the locks
SignupCommit(p) ==
  /\ pc[p] = "su_commit"
  /\ LET c == loc[p].code
         u == loc[p].r.created_by
         h == loc[p].user
     IN /\ users' = users \cup {h}
        /\ codes' = [codes EXCEPT ![c] =
              [@ EXCEPT !.used_by = loc[p].newu,
                        !.use_count = @ + 1,
                        !.is_valid = ~IsFullyUsed(loc[p].r.use_count, loc[p].r.max_uses)]]
        /\ rels' = rels \cup {<<u, loc[p].newu, c>>}
        /\ trust' = [v \in Users |->
              IF v = u /\ trust[v].exists
              THEN [trust[v] EXCEPT !.successful_invites = @ + 1, !.points = @ + 10]
              ELSE IF v = h /\ ~trust[v].exists THEN FreshTrust
              ELSE trust[v]]
        /\ lock' = [lock EXCEPT ![c] = Null]
        /\ tlock' = [tlock EXCEPT ![u] = IF @ = p THEN Null ELSE @]
  /\ Return(p, [loc[p] EXCEPT !.wuser = FALSE], "ok")
  /\ UNCHANGED <<now, calls>>

\* signup: a statement or the COMMIT fails; `?` returns the error, tx is dropped
\* and the transaction rolls back
SignupFail(p) ==
  /\ pc[p] \in {"su_insert", "su_init", "su_consume", "su_commit"}
  /\ lock' = [c \in Codes |-> IF lock[c] = p THEN Null ELSE lock[c]]
  /\ tlock' = [u \in Users |-> IF tlock[u] = p THEN Null ELSE tlock[u]]
  /\ Return(p, [loc[p] EXCEPT !.wuser = FALSE], "err_db")
  /\ UNCHANGED <<now, codes, rels, trust, calls, users>>

RateNext(mode, ps) ==
  \/ \E p \in ps :
       \/ RequestStart(p, mode) /\ UNCHANGED <<storeVars, deviceVars, userVars>>
       \/ CheckConnect(p, mode) /\ UNCHANGED <<storeVars, deviceVars, userVars>>
       \/ CheckWindow(p, mode) /\ UNCHANGED <<storeVars, deviceVars, userVars>>
       \/ IncrementConnect(p, mode) /\ UNCHANGED <<storeVars, deviceVars, userVars>>
       \/ IncrementGet(p, mode) /\ UNCHANGED <<storeVars, deviceVars, userVars>>
       \/ IncrementIncr(p, mode) /\ UNCHANGED <<storeVars, deviceVars, userVars>>
       \/ IncrementExpire(p, mode) /\ UNCHANGED <<storeVars, deviceVars, userVars>>
       \/ RequestFinish(p) /\ UNCHANGED <<storeVars, deviceVars, userVars>>
  \/ RateTick /\ UNCHANGED <<storeVars, deviceVars, userVars>>

vars == <<storeVars, rateVars, deviceVars, userVars>>

\* TrustService and the ban middleware, called by the processes ps
TrustNext(mode, ps) ==
  \/ \E p \in ps :
       \/ InitializeUser(p, mode) /\ UNCHANGED <<rateVars, deviceVars, userVars>>
       \/ RecordActivity(p, mode) /\ UNCHANGED <<rateVars, deviceVars, userVars>>
       \/ StartRecalculate(p, mode) /\ UNCHANGED <<rateVars, deviceVars, userVars>>
       \/ RecalcSelect(p) /\ UNCHANGED <<rateVars, deviceVars, userVars>>
       \/ RecalcUpdate(p) /\ UNCHANGED <<rateVars, deviceVars, userVars>>
       \/ StartAddStrike(p, mode) /\ UNCHANGED <<rateVars, deviceVars, userVars>>
       \/ AddStrikeUpdate(p) /\ UNCHANGED <<rateVars, deviceVars, userVars>>
       \/ AddStrikeBan(p) /\ UNCHANGED <<rateVars, deviceVars, userVars>>
       \/ RecordFlag(p, mode) /\ UNCHANGED <<rateVars, deviceVars, userVars>>
       \/ RecordFlagSelect(p) /\ UNCHANGED <<rateVars, deviceVars, userVars>>
       \/ SetTrustLevel(p, mode) /\ UNCHANGED <<rateVars, deviceVars, userVars>>
       \/ BanCheck(p, mode) /\ UNCHANGED <<rateVars, deviceVars, userVars>>
       \/ Finish(p) /\ UNCHANGED <<rateVars, deviceVars, userVars>>
  \/ Tick /\ UNCHANGED <<rateVars, deviceVars, userVars>>

\* InviteService (and the admin's set_trust_level), called by the processes ps
InviteNext(mode, ps) ==
  \/ \E p \in ps :
       \/ SetTrustLevel(p, mode) /\ UNCHANGED <<rateVars, deviceVars, userVars>>
       \/ CreateInviteSelect(p, mode) /\ UNCHANGED <<rateVars, deviceVars, userVars>>
       \/ CreateInviteGenerate(p) /\ UNCHANGED <<rateVars, deviceVars, userVars>>
       \/ CreateInviteInsert(p) /\ UNCHANGED <<rateVars, deviceVars, userVars>>
       \/ CreateInviteCount(p) /\ UNCHANGED <<rateVars, deviceVars, userVars>>
       \/ StartConsume(p, mode, ConsumeTargets) /\ UNCHANGED <<rateVars, deviceVars, userVars>>
       \/ ConsumeSelect(p) /\ UNCHANGED <<rateVars, deviceVars, userVars>>
       \/ ConsumeUpdate(p) /\ UNCHANGED <<rateVars, deviceVars, userVars>>
       \/ ConsumeRelate(p) /\ UNCHANGED <<rateVars, deviceVars, userVars>>
       \/ ConsumeReward(p) /\ UNCHANGED <<rateVars, deviceVars, userVars>>
       \/ ConsumeCommit(p) /\ UNCHANGED <<rateVars, deviceVars, userVars>>
       \/ RevokeInvite(p, mode) /\ UNCHANGED <<rateVars, deviceVars, userVars>>
       \/ Finish(p) /\ UNCHANGED <<rateVars, deviceVars, userVars>>
  \/ Tick /\ UNCHANGED <<rateVars, deviceVars, userVars>>

TrustSeqNext == TrustNext(Mode(FALSE, MaxTrustCalls), {1})
InviteSeqNext == InviteNext(Mode(FALSE, MaxInviteCalls), {1})
InviteConcNext == InviteNext(Mode(TRUE, MaxConcCalls), {1, 2})

\* trust operations, one service call at a time
TrustInit == StoreInit(TrustSeeds, 1) /\ RateInit /\ NoDevices /\ UsersInit

SpecTrust == TrustInit /\ [][TrustSeqNext]_vars

\* trust operations, the admin's set_trust_level and redemptions of the user's
\* invite code by two processes, interleaved statement by statement, with
\* statements that can fail
TrustConcNext ==
  \/ \E p \in {1, 2} :
       \/ RecordActivity(p, Mode(TRUE, MaxTrustConcCalls)) /\ UNCHANGED <<rateVars, deviceVars, userVars>>
       \/ StartRecalculate(p, Mode(TRUE, MaxTrustConcCalls)) /\ UNCHANGED <<rateVars, deviceVars, userVars>>
       \/ RecalcSelect(p) /\ UNCHANGED <<rateVars, deviceVars, userVars>>
       \/ RecalcUpdate(p) /\ UNCHANGED <<rateVars, deviceVars, userVars>>
       \/ StartAddStrike(p, Mode(TRUE, MaxTrustConcCalls)) /\ UNCHANGED <<rateVars, deviceVars, userVars>>
       \/ AddStrikeUpdate(p) /\ UNCHANGED <<rateVars, deviceVars, userVars>>
       \/ AddStrikeBan(p) /\ UNCHANGED <<rateVars, deviceVars, userVars>>
       \/ RecordFlag(p, Mode(TRUE, MaxTrustConcCalls)) /\ UNCHANGED <<rateVars, deviceVars, userVars>>
       \/ RecordFlagSelect(p) /\ UNCHANGED <<rateVars, deviceVars, userVars>>
       \/ TrustFail(p) /\ UNCHANGED <<rateVars, deviceVars, userVars>>
       \/ SetTrustLevel(p, Mode(TRUE, MaxTrustConcCalls)) /\ UNCHANGED <<rateVars, deviceVars, userVars>>
       \/ StartConsume(p, Mode(TRUE, MaxTrustConcCalls), {"seed"}) /\ UNCHANGED <<rateVars, deviceVars, userVars>>
       \/ ConsumeSelect(p) /\ UNCHANGED <<rateVars, deviceVars, userVars>>
       \/ ConsumeUpdate(p) /\ UNCHANGED <<rateVars, deviceVars, userVars>>
       \/ ConsumeRelate(p) /\ UNCHANGED <<rateVars, deviceVars, userVars>>
       \/ ConsumeReward(p) /\ UNCHANGED <<rateVars, deviceVars, userVars>>
       \/ ConsumeCommit(p) /\ UNCHANGED <<rateVars, deviceVars, userVars>>
       \/ Finish(p) /\ UNCHANGED <<rateVars, deviceVars, userVars>>

TrustConcInit == StoreInit(TrustSeeds, 1) /\ RateInit /\ NoDevices /\ UsersInit

SpecTrustConc == TrustConcInit /\ [][TrustConcNext]_vars

\* two point updates A and B applied to two accounts with equal rows: A then B
\* to alice, B then A to bob.  Process 1 applies A to alice, process 2 applies B
\* to bob, process 3 repeats B on alice and then A on bob.
CommuteTurn(p, u) ==
  \/ p = 1 /\ u = "alice" /\ calls = 0
  \/ p = 2 /\ u = "bob" /\ calls = 1 /\ pc[1] = "done"
  \/ p = 3 /\ u = "alice" /\ calls = 2 /\ pc[2] = "done"
  \/ p = 3 /\ u = "bob" /\ calls = 3

\* the call process 3 starts is the one process 2, then process 1, made
CommuteSame(p) ==
  p = 3 =>
    LET first == IF calls = 2 THEN loc[2] ELSE loc[1] IN
    loc'[3].op = first.op /\ loc'[3].act = first.act

CommuteNext ==
  \E p \in Procs :
    \/ \E u \in Users :
         /\ CommuteTurn(p, u)
         /\ RecordActivityOf(p, Mode(TRUE, CommuteCalls), u)
         /\ CommuteSame(p)
         /\ UNCHANGED <<rateVars, deviceVars, userVars>>
    \/ \E u \in Users :
         /\ CommuteTurn(p, u)
         /\ RecordFlagOf(p, Mode(TRUE, CommuteCalls), u)
         /\ CommuteSame(p)
         /\ UNCHANGED <<rateVars, deviceVars, userVars>>
    \/ \E u \in Users :
         /\ CommuteTurn(p, u)
         /\ StartAddStrikeOf(p, Mode(TRUE, CommuteCalls), u)
         /\ CommuteSame(p)
         /\ UNCHANGED <<rateVars, deviceVars, userVars>>
    \/ RecalcSelect(p) /\ UNCHANGED <<rateVars, deviceVars, userVars>>
    \/ RecalcUpdate(p) /\ UNCHANGED <<rateVars, deviceVars, userVars>>
    \/ AddStrikeUpdate(p) /\ UNCHANGED <<rateVars, deviceVars, userVars>>
    \/ AddStrikeBan(p) /\ UNCHANGED <<rateVars, deviceVars, userVars>>
    \/ RecordFlagSelect(p) /\ UNCHANGED <<rateVars, deviceVars, userVars>>
    \/ p = 3 /\ calls = 3 /\ Finish(p) /\ UNCHANGED <<rateVars, deviceVars, userVars>>

CommuteInit == StoreInitFor(TrustSeeds, 1, Users) /\ RateInit /\ NoDevices /\ UsersInit

SpecCommute == CommuteInit /\ [][CommuteNext]_vars

\* device registrations, blocks and unblocks, one call at a time
DeviceSeqNext ==
  \/ \E p \in {1} :
       \/ RegisterSelect(p, Mode(FALSE, MaxDeviceCalls)) /\ UNCHANGED <<rateVars, userVars>>
       \/ RegisterWrite(p) /\ UNCHANGED <<rateVars, userVars>>
       \/ BlockDevice(p, Mode(FALSE, MaxDeviceCalls)) /\ UNCHANGED <<rateVars, userVars>>
       \/ UnblockDevice(p, Mode(FALSE, MaxDeviceCalls)) /\ UNCHANGED <<rateVars, userVars>>
       \/ Finish(p) /\ UNCHANGED <<rateVars, deviceVars, userVars>>
  \/ Tick /\ UNCHANGED <<rateVars, deviceVars, userVars>>

DeviceSeqInit ==
  StoreInit({FreshTrust}, 1) /\ RateInit /\ DevicesInit(DeviceSeeds) /\ UsersInit

\* two callers of the register handler and of the administrative operations,
\* interleaved statement by statement, on an unseen device or on one with two
\* accounts
DeviceConcSeeds == { NoDevice, SeenDevice(2, 5) }

DeviceConcNext ==
  \/ \E p \in {1, 2} :
       \/ RegisterWrite(p) /\ UNCHANGED <<rateVars, userVars>>
       \/ RegisterDeviceCheck(p, Mode(TRUE, MaxDeviceConcCalls)) /\ UNCHANGED <<rateVars, userVars>>
       \/ RegisterDeviceSelect(p) /\ UNCHANGED <<rateVars, userVars>>
       \/ BlockDevice(p, Mode(TRUE, MaxDeviceConcCalls)) /\ UNCHANGED <<rateVars, userVars>>
       \/ UnblockDevice(p, Mode(TRUE, MaxDeviceConcCalls)) /\ UNCHANGED <<rateVars, userVars>>
       \/ Finish(p) /\ UNCHANGED <<rateVars, deviceVars, userVars>>
  \/ Tick /\ UNCHANGED <<rateVars, deviceVars, userVars>>

DeviceConcInit ==
  StoreInit({FreshTrust}, 1) /\ RateInit /\ DevicesInit(DeviceConcSeeds) /\ UsersInit

SpecDeviceConc == DeviceConcInit /\ [][DeviceConcNext]_vars

SpecDevice == DeviceSeqInit /\ [][DeviceSeqNext]_vars

\* signups of two callers, with redemptions and revocations of the same codes
SignupNext ==
  \/ \E p \in {1, 2} :
       \/ StartSignup(p, Mode(TRUE, MaxSignupCalls)) /\ UNCHANGED <<rateVars, deviceVars>>
       \/ SignupInsertUser(p) /\ UNCHANGED <<rateVars, deviceVars>>
       \/ SignupInitTrust(p) /\ UNCHANGED <<rateVars, deviceVars>>
       \/ SignupConsume(p) /\ UNCHANGED <<rateVars, deviceVars>>
       \/ SignupCommit(p) /\ UNCHANGED <<rateVars, deviceVars>>
       \/ SignupFail(p) /\ UNCHANGED <<rateVars, deviceVars>>
       \/ StartConsume(p, Mode(TRUE, MaxSignupCalls), {"seed"}) /\ UNCHANGED <<rateVars, deviceVars, userVars>>
       \/ ConsumeSelect(p) /\ UNCHANGED <<rateVars, deviceVars, userVars>>
       \/ ConsumeUpdate(p) /\ UNCHANGED <<rateVars, deviceVars, userVars>>
       \/ ConsumeRelate(p) /\ UNCHANGED <<rateVars, deviceVars, userVars>>
       \/ ConsumeReward(p) /\ UNCHANGED <<rateVars, deviceVars, userVars>>
       \/ ConsumeCommit(p) /\ UNCHANGED <<rateVars, deviceVars, userVars>>
       \/ RevokeInvite(p, Mode(TRUE, MaxSignupCalls)) /\ UNCHANGED <<rateVars, deviceVars, userVars>>
       \/ Finish(p) /\ UNCHANGED <<rateVars, deviceVars, userVars>>
  \/ Tick /\ UNCHANGED <<rateVars, deviceVars, userVars>>

SignupInit == StoreInit({FreshTrust}, MaxUses) /\ RateInit /\ NoDevices /\ UsersInit

SpecSignup == SignupInit /\ [][SignupNext]_vars

\* invite operations, one service call at a time
InviteInit == StoreInit(InviteSeeds, MaxUses) /\ RateInit /\ NoDevices /\ UsersInit

SpecInvite == InviteInit /\ [][InviteSeqNext]_vars

\* invite operations of two processes interleaved statement by statement
InviteConcInit == StoreInit({FreshTrust}, MaxUses) /\ RateInit /\ NoDevices /\ UsersInit

SpecInviteConc == InviteConcInit /\ [][InviteConcNext]_vars

\* recalculate_trust_level as a function of the stored metrics: every combination
\* of values around the thresholds of the rule, under every stored level
RecalcInputs ==
  { [FreshTrust EXCEPT !.level = l, !.age = a, !.posts = po, !.points = pt,
                       !.flags = f, !.strikes = st] :
      l \in Levels, a \in {0, 6, 7, 89, 90}, po \in {4, 5, 49, 50},
      pt \in {19, 20, 199, 200}, f \in {2, 3, 4, 5}, st \in {2, 3} }

RecalcNext ==
  \E p \in {1} :
    \/ StartRecalculate(p, Mode(FALSE, MaxRecalcCalls)) /\ UNCHANGED <<rateVars, deviceVars, userVars>>
    \/ RecalcSelect(p) /\ UNCHANGED <<rateVars, deviceVars, userVars>>
    \/ RecalcUpdate(p) /\ UNCHANGED <<rateVars, deviceVars, userVars>>
    \/ Finish(p) /\ UNCHANGED <<rateVars, deviceVars, userVars>>

RecalcInit == StoreInit(RecalcInputs, 1) /\ RateInit /\ NoDevices /\ UsersInit

SpecRecalc == RecalcInit /\ [][RecalcNext]_vars

\* every process redeems the seeded code once, concurrently
RaceNext ==
  \E p \in Procs :
    \/ StartConsume(p, Mode(TRUE, Cardinality(Procs)), {"seed"}) /\ UNCHANGED <<rateVars, deviceVars, userVars>>
    \/ ConsumeSelect(p) /\ UNCHANGED <<rateVars, deviceVars, userVars>>
    \/ ConsumeUpdate(p) /\ UNCHANGED <<rateVars, deviceVars, userVars>>
    \/ ConsumeRelate(p) /\ UNCHANGED <<rateVars, deviceVars, userVars>>
    \/ ConsumeReward(p) /\ UNCHANGED <<rateVars, deviceVars, userVars>>
    \/ ConsumeCommit(p) /\ UNCHANGED <<rateVars, deviceVars, userVars>>

RaceInit == StoreInit({FreshTrust}, MaxUses) /\ RateInit /\ NoDevices /\ UsersInit

SpecRace == RaceInit /\ [][RaceNext]_vars

\* two create_invite calls of the same user interleaved statement by statement,
\* from accounts one invite short of the quota of their level
CreateRaceSeeds == InviteSeeds \cup {[FreshTrust EXCEPT !.invites_sent = 2]}

CreateRaceNext ==
  \E p \in {1, 2} :
    \/ CreateInviteSelect(p, Mode(TRUE, MaxConcCalls)) /\ UNCHANGED <<rateVars, deviceVars, userVars>>
    \/ CreateInviteGenerate(p) /\ UNCHANGED <<rateVars, deviceVars, userVars>>
    \/ CreateInviteInsert(p) /\ UNCHANGED <<rateVars, deviceVars, userVars>>
    \/ CreateInviteCount(p) /\ UNCHANGED <<rateVars, deviceVars, userVars>>
    \/ Finish(p) /\ UNCHANGED <<rateVars, deviceVars, userVars>>

CreateRaceInit == StoreInit(CreateRaceSeeds, 1) /\ RateInit /\ NoDevices /\ UsersInit

SpecCreateRace == CreateRaceInit /\ [][CreateRaceNext]_vars

\* consume_invite calls of two processes interleaved statement by statement, with
\* statements that can fail, next to revoke_invite and the passing of time
ConsumeNext ==
  \/ \E p \in {1, 2} :
       \/ StartConsume(p, Mode(TRUE, MaxConsumeCalls), ConsumeTargets) /\ UNCHANGED <<rateVars, deviceVars, userVars>>
       \/ ConsumeSelect(p) /\ UNCHANGED <<rateVars, deviceVars, userVars>>
       \/ ConsumeUpdate(p) /\ UNCHANGED <<rateVars, deviceVars, userVars>>
       \/ ConsumeRelate(p) /\ UNCHANGED <<rateVars, deviceVars, userVars>>
       \/ ConsumeReward(p) /\ UNCHANGED <<rateVars, deviceVars, userVars>>
       \/ ConsumeCommit(p) /\ UNCHANGED <<rateVars, deviceVars, userVars>>
       \/ ConsumeFail(p) /\ UNCHANGED <<rateVars, deviceVars, userVars>>
       \/ RevokeInvite(p, Mode(TRUE, MaxConsumeCalls)) /\ UNCHANGED <<rateVars, deviceVars, userVars>>
       \/ Finish(p) /\ UNCHANGED <<rateVars, deviceVars, userVars>>
  \/ Tick /\ UNCHANGED <<rateVars, deviceVars, userVars>>

ConsumeInit == StoreInit({FreshTrust}, MaxUses) /\ RateInit /\ NoDevices /\ UsersInit

SpecConsume == ConsumeInit /\ [][ConsumeNext]_vars

\* requests of one user to rate_limit_middleware, one at a time, cache healthy
RateSeqNext == RateNext(RateMode(FALSE, MaxRequests, FALSE), {1})

RateSeqInit == StoreInit({FreshTrust}, 1) /\ RateInit /\ NoDevices /\ UsersInit

SpecRate == RateSeqInit /\ [][RateSeqNext]_vars

\* the same with cache commands that can fail
RateFaultNext == RateNext(RateMode(FALSE, MaxFaultRequests, TRUE), {1})

RateFaultInit == StoreInit({FreshTrust}, 1) /\ RateInit /\ NoDevices /\ UsersInit

SpecRateFault == RateFaultInit /\ [][RateFaultNext]_vars

\* requests of a New user to POST /posts from two connections at once, with time
\* passing at any moment
RateConcNext ==
  \/ \E p \in {1, 2} :
       \/ RequestStartAs(p, RateMode(TRUE, MaxConcRequests, FALSE), {"post"}, {New})
            /\ UNCHANGED <<storeVars, deviceVars, userVars>>
       \/ CheckConnect(p, RateMode(TRUE, MaxConcRequests, FALSE)) /\ UNCHANGED <<storeVars, deviceVars, userVars>>
       \/ CheckWindow(p, RateMode(TRUE, MaxConcRequests, FALSE)) /\ UNCHANGED <<storeVars, deviceVars, userVars>>
       \/ IncrementConnect(p, RateMode(TRUE, MaxConcRequests, FALSE)) /\ UNCHANGED <<storeVars, deviceVars, userVars>>
       \/ IncrementGet(p, RateMode(TRUE, MaxConcRequests, FALSE)) /\ UNCHANGED <<storeVars, deviceVars, userVars>>
       \/ IncrementIncr(p, RateMode(TRUE, MaxConcRequests, FALSE)) /\ UNCHANGED <<storeVars, deviceVars, userVars>>
       \/ IncrementExpire(p, RateMode(TRUE, MaxConcRequests, FALSE)) /\ UNCHANGED <<storeVars, deviceVars, userVars>>
       \/ RequestFinish(p) /\ UNCHANGED <<storeVars, deviceVars, userVars>>
  \/ RateTick /\ UNCHANGED <<storeVars, deviceVars, userVars>>
  \/ RateTickAny /\ UNCHANGED <<storeVars, deviceVars, userVars>>

RateConcInit == StoreInit({FreshTrust}, 1) /\ RateInit /\ NoDevices /\ UsersInit

SpecRateConc == RateConcInit /\ [][RateConcNext]_vars

\* calls with an action name of the table and with one that is not in it, one
\* at a time, with cache commands that can fail
UnknownActions == {"post", "share"}

RateUnknownNext ==
  \/ \E p \in {1} :
       \/ RequestStartAs(p, RateMode(FALSE, MaxFaultRequests, TRUE), UnknownActions, {New})
            /\ UNCHANGED <<storeVars, deviceVars, userVars>>
       \/ CheckConnect(p, RateMode(FALSE, MaxFaultRequests, TRUE)) /\ UNCHANGED <<storeVars, deviceVars, userVars>>
       \/ CheckWindow(p, RateMode(FALSE, MaxFaultRequests, TRUE)) /\ UNCHANGED <<storeVars, deviceVars, userVars>>
       \/ IncrementConnect(p, RateMode(FALSE, MaxFaultRequests, TRUE)) /\ UNCHANGED <<storeVars, deviceVars, userVars>>
       \/ IncrementGet(p, RateMode(FALSE, MaxFaultRequests, TRUE)) /\ UNCHANGED <<storeVars, deviceVars, userVars>>
       \/ IncrementIncr(p, RateMode(FALSE, MaxFaultRequests, TRUE)) /\ UNCHANGED <<storeVars, deviceVars, userVars>>
       \/ IncrementExpire(p, RateMode(FALSE, MaxFaultRequests, TRUE)) /\ UNCHANGED <<storeVars, deviceVars, userVars>>
       \/ RequestFinish(p) /\ UNCHANGED <<storeVars, deviceVars, userVars>>
  \/ RateTick /\ UNCHANGED <<storeVars, deviceVars, userVars>>

RateUnknownInit == StoreInit({FreshTrust}, 1) /\ RateInit /\ NoDevices /\ UsersInit

SpecRateUnknown == RateUnknownInit /\ [][RateUnknownNext]_vars

\* requests of users of every trust level, one at a time
RateQuotaNext ==
  \/ \E p \in {1} :
       \/ RequestStartAs(p, RateMode(FALSE, MaxQuotaRequests, FALSE), RateActions, Levels)
            /\ UNCHANGED <<storeVars, deviceVars, userVars>>
       \/ CheckConnect(p, RateMode(FALSE, MaxQuotaRequests, FALSE)) /\ UNCHANGED <<storeVars, deviceVars, userVars>>
       \/ CheckWindow(p, RateMode(FALSE, MaxQuotaRequests, FALSE)) /\ UNCHANGED <<storeVars, deviceVars, userVars>>
       \/ IncrementConnect(p, RateMode(FALSE, MaxQuotaRequests, FALSE)) /\ UNCHANGED <<storeVars, deviceVars, userVars>>
       \/ IncrementGet(p, RateMode(FALSE, MaxQuotaRequests, FALSE)) /\ UNCHANGED <<storeVars, deviceVars, userVars>>
       \/ IncrementIncr(p, RateMode(FALSE, MaxQuotaRequests, FALSE)) /\ UNCHANGED <<storeVars, deviceVars, userVars>>
       \/ IncrementExpire(p, RateMode(FALSE, MaxQuotaRequests, FALSE)) /\ UNCHANGED <<storeVars, deviceVars, userVars>>
       \/ RequestFinish(p) /\ UNCHANGED <<storeVars, deviceVars, userVars>>
  \/ RateTick /\ UNCHANGED <<storeVars, deviceVars, userVars>>

\* posts of a user whose level moves between New and Basic, and reads of the
\* remaining quota, one request at a time on a healthy cache
RateRemainingNext ==
  \/ \E p \in {1} :
       \/ RequestStartAs(p, RateMode(FALSE, MaxRemainingRequests, FALSE), {"post"}, {New, Basic})
            /\ UNCHANGED <<storeVars, deviceVars, userVars>>
       \/ GetRemaining(p, RateMode(FALSE, MaxRemainingRequests, FALSE), {"post", "unfollow"}, {New, Basic})
            /\ UNCHANGED <<storeVars, deviceVars, userVars>>
       \/ CheckConnect(p, RateMode(FALSE, MaxRemainingRequests, FALSE)) /\ UNCHANGED <<storeVars, deviceVars, userVars>>
       \/ CheckWindow(p, RateMode(FALSE, MaxRemainingRequests, FALSE)) /\ UNCHANGED <<storeVars, deviceVars, userVars>>
       \/ IncrementConnect(p, RateMode(FALSE, MaxRemainingRequests, FALSE)) /\ UNCHANGED <<storeVars, deviceVars, userVars>>
       \/ IncrementGet(p, RateMode(FALSE, MaxRemainingRequests, FALSE)) /\ UNCHANGED <<storeVars, deviceVars, userVars>>
       \/ IncrementIncr(p, RateMode(FALSE, MaxRemainingRequests, FALSE)) /\ UNCHANGED <<storeVars, deviceVars, userVars>>
       \/ IncrementExpire(p, RateMode(FALSE, MaxRemainingRequests, FALSE)) /\ UNCHANGED <<storeVars, deviceVars, userVars>>
       \/ RequestFinish(p) /\ UNCHANGED <<storeVars, deviceVars, userVars>>
  \/ RateTick /\ UNCHANGED <<storeVars, deviceVars, userVars>>

RateRemainingInit == StoreInit({FreshTrust}, 1) /\ RateInit /\ NoDevices /\ UsersInit

SpecRateRemaining == RateRemainingInit /\ [][RateRemainingNext]_vars

RateQuotaInit == StoreInit({FreshTrust}, 1) /\ RateInit /\ NoDevices /\ UsersInit

SpecRateQuota == RateQuotaInit /\ [][RateQuotaNext]_vars

\* one request at a time, each followed by the answer of its handler
RateHandlerNext ==
  \/ RateSeqNext
  \/ \E p \in {1} : HandlerReturns(p) /\ UNCHANGED <<storeVars, deviceVars, userVars>>

RateHandlerInit == StoreInit({FreshTrust}, 1) /\ RateInit /\ NoDevices /\ UsersInit

SpecRateHandler == RateHandlerInit /\ [][RateHandlerNext]_vars


(***************************************************************************)
(* Claims                                                                  *)
(***************************************************************************)
Min(a, b) == IF a < b THEN a ELSE b

RaceDone == \A p \in Procs : pc[p] = "done"
RaceWinners == {p \in Procs : loc[p].ret = "ok"}

\* C1: when M + K processes (distinct new users) concurrently redeem one valid,
\* unexpired code with max_uses = M, then once all calls have returned exactly M
\* of them succeeded and the other K were rejected, whatever the interleaving.
C1_ExactlyMaxUsesRedemptions ==
  RaceDone =>
    /\ Cardinality(RaceWinners) = Min(codes["seed"].max_uses, Cardinality(Procs))
    /\ \A p \in Procs \ RaceWinners : loc[p].ret \in {"err_revoked", "err_fully_used"}
    /\ codes["seed"].use_count = Cardinality(RaceWinners)
    /\ Cardinality(rels) = Cardinality(RaceWinners)

\* a two-use code after three concurrent redemptions: two winners, one rejection
C1_Witness ==
  /\ RaceDone
  /\ codes["seed"].max_uses = 2
  /\ Cardinality(RaceWinners) = 2
  /\ \E p \in Procs : loc[p].ret = "err_revoked"

\* C2: in every reachable state every invite code has use_count <= max_uses, and
\* a code whose use_count equals max_uses is not valid.
C2_UseCountBounded ==
  \A c \in Codes :
    codes[c].exists =>
      /\ codes[c].use_count <= codes[c].max_uses
      /\ codes[c].use_count = codes[c].max_uses => ~codes[c].is_valid

\* a two-use code that two redemptions have used up
C2_Witness ==
  \E c \in Codes :
    /\ codes[c].exists
    /\ codes[c].max_uses = 2
    /\ codes[c].use_count = 2
    /\ ~codes[c].is_valid

Done(p, o) == pc[p] = "done" /\ loc[p].op = o

\* the ban durations as the claim states them
ClaimedBanDays(n) == IF n = 3 THEN 7 ELSE IF n = 4 THEN 30 ELSE 365

\* a completed add_strike, called directly or by record_flag on a tenth flag
StruckBy(p) ==
  /\ pc[p] = "done"
  /\ loc[p].ret = "ok"
  /\ loc[p].op = "add_strike" \/ (loc[p].op = "record_flag" /\ loc[p].nested)

\* C6: an add_strike that brings the strike count to n sets banned_until to
\* now + 7 days for n = 3, now + 30 days for n = 4 and now + 365 days for n >= 5
\* and leaves the level New; for n <= 2 it leaves banned_until as it was.
C6_StrikeBanDurations ==
  \A p \in Procs :
    StruckBy(p) =>
      LET row == trust[loc[p].user]
          n == loc[p].strikes
      IN /\ row.strikes = n
         /\ n >= 3 => /\ row.banned_until = loc[p].t + ClaimedBanDays(n)
                      /\ row.level = New
         /\ n <= 2 => row.banned_until = loc[p].oldban

\* a fifth strike has just imposed a ban of 365 days
C6_Witness ==
  \E p \in Procs :
    /\ StruckBy(p)
    /\ loc[p].strikes = 5
    /\ trust[loc[p].user].banned_until = loc[p].t + 365

\* the level rule as the claim states it
ClaimedLevel(row) ==
  CASE row.strikes >= 3 -> New
    [] row.strikes < 3 /\ row.age >= 90 /\ row.posts >= 50 /\ row.points >= 200
         /\ row.flags < 3 -> Trusted
    [] row.strikes < 3
         /\ ~(row.age >= 90 /\ row.posts >= 50 /\ row.points >= 200 /\ row.flags < 3)
         /\ row.age >= 7 /\ row.posts >= 5 /\ row.points >= 20 /\ row.flags < 5 -> Basic
    [] OTHER -> New

NoCallRunning == \A p \in Procs : pc[p] \in {"idle", "done"}

Recalculating(l) ==
  \/ l.op \in {"recalculate_trust_level", "add_strike"}
  \/ l.op = "record_activity" /\ Abs(PointsDelta(l.act)) >= 5
  \/ l.op = "record_flag" /\ l.nested

C9_BannedIffFutureBan ==
  \A p \in Procs :
    Done(p, "ban_check") =>
      LET row == trust[loc[p].user] IN
      (loc[p].ret = "forbidden") <=>
        (row.exists /\ row.banned_until # Null /\ row.banned_until > loc[p].t)

\* a banned user whom an administrator made Verified is still rejected
C9_Witness ==
  \E p \in Procs :
    /\ Done(p, "ban_check")
    /\ loc[p].ret = "forbidden"
    /\ trust[loc[p].user].level = Verified

\* the invite quotas as the claim states them
ClaimedQuota(level) ==
  IF level = New THEN 3 ELSE IF level = Basic THEN 10
  ELSE IF level = Trusted THEN 50 ELSE 200

\* C10: create_invite succeeds exactly when invites_sent is below the quota of the
\* user's level, and then adds one code and one to invites_sent; otherwise it
\* fails with the maximum-invite-limit error carrying that quota, creates no code
\* and leaves invites_sent unchanged.
C10_CreateInviteQuota ==
  \A p \in Procs :
    Done(p, "create_invite") =>
      LET row == trust[loc[p].user]
          n == Cardinality({c \in Codes : codes[c].exists})
      IN /\ row.exists =>
              /\ loc[p].ret = "ok" <=> row.invites_sent - 1 < ClaimedQuota(row.level)
                                       /\ row.invites_sent = loc[p].sent + 1
              /\ loc[p].ret = "err_max_invites" <=> loc[p].sent >= ClaimedQuota(row.level)
         /\ loc[p].ret = "ok" =>
              /\ n = loc[p].ncodes + 1
              /\ codes[loc[p].code].exists
              /\ codes[loc[p].code].created_by = loc[p].user
         /\ loc[p].ret = "err_max_invites" =>
              /\ loc[p].quota = ClaimedQuota(row.level)
              /\ row.invites_sent = loc[p].sent
              /\ n = loc[p].ncodes

\* a fresh New user after three invites: the fourth call fails with quota 3
C10_Witness ==
  \E p \in Procs :
    /\ Done(p, "create_invite")
    /\ loc[p].ret = "err_max_invites"
    /\ loc[p].quota = 3
    /\ trust[loc[p].user].level = New
    /\ trust[loc[p].user].invites_sent = 3
    /\ Cardinality({c \in Codes : codes[c].exists /\ c # "seed"}) = 3

\* the window keys a request is counted under
RequestKeys(l) ==
  { CurrentKey(l.action, Checks(l.action)[i]) : i \in 1..Len(Checks(l.action)) }

\* the requests forwarded under key k before the request of p
Prior(p, k) == admitted[k] - (IF rloc[p].ret = "forwarded" THEN 1 ELSE 0)

\* C3: for one caller making one request at a time within a window, a request
\* with no earlier forwarded request in its windows is forwarded (every quota is
\* at least 1), and a request made after Q forwarded requests in a window of
\* quota Q is denied.
C3_FirstAdmittedThenDeniedAtQuota ==
  \A p \in Procs :
    rpc[p] = "done" =>
      LET l == rloc[p] IN
      /\ (\A k \in RequestKeys(l) : Prior(p, k) = 0) => l.ret = "forwarded"
      /\ (\E k \in RequestKeys(l) :
            Prior(p, k) >= RateLimit(l.level, l.action, k.window))
           => l.ret = "rate_limited"

\* the sixth post of a Basic user within one hour is denied
C3_Witness ==
  \E p \in Procs :
    /\ rpc[p] = "done"
    /\ rloc[p].ret = "rate_limited"
    /\ rloc[p].level = Basic
    /\ rloc[p].action = "post"
    /\ Prior(p, CurrentKey("post", "hour")) = 5

\* the windows of an action in the order of the table
ClaimedOrder(action) ==
  IF action \in {"post", "follow"} THEN <<"hour", "day">>
  ELSE IF action = "unfollow" THEN <<"day">> ELSE <<"hour">>

\* check_rate_limit has returned and nothing has been counted yet
Checked(p) ==
  \/ rpc[p] = "inc_connect"
  \/ rpc[p] = "done" /\ rloc[p].ret = "rate_limited"

\* positions, in table order, of the windows at or above their quota
AtQuota(l) ==
  { i \in 1..Len(ClaimedOrder(l.action)) :
      cache[CurrentKey(l.action, ClaimedOrder(l.action)[i])].count
        >= RateLimit(l.level, l.action, ClaimedOrder(l.action)[i]) }

\* C4: check_rate_limit denies at the first window, in table order, whose count
\* is at or above its quota: limited is true, limit is that window's quota,
\* remaining is 0 and no later window has been read; with no such window it
\* does not deny.
C4_DeniesAtFirstWindowAtQuota ==
  \A p \in Procs :
    Checked(p) =>
      LET l == rloc[p] IN
      IF AtQuota(l) = {} THEN ~l.info.limited
      ELSE LET first == CHOOSE i \in AtQuota(l) : \A j \in AtQuota(l) : i <= j
           IN /\ l.info.limited
              /\ l.info.limit = RateLimit(l.level, l.action, ClaimedOrder(l.action)[first])
              /\ l.info.remaining = 0
              /\ l.reads = first

\* a New user below the hourly quota is denied on the daily quota of 5
C4_Witness ==
  \E p \in Procs :
    /\ Checked(p)
    /\ rloc[p].info.limited
    /\ rloc[p].level = New
    /\ rloc[p].action = "post"
    /\ rloc[p].info.limit = 5
    /\ rloc[p].reads = 2

\* C5 as stated: a request during whose check the cache could not be reached or
\* a counter read failed is answered with an internal error, never forwarded.
C5_FailsClosed ==
  \A p \in Procs :
    (rpc[p] = "done" /\ (rloc[p].conn_failed \/ rloc[p].read_failed)) =>
      rloc[p].ret = "internal_error"

\* C11 as stated: in every state invites_sent is at most the invite quota of the
\* user's current level.
C11_InvitesSentWithinQuota ==
  \A u \in Users :
    trust[u].exists => trust[u].invites_sent <= ClaimedQuota(trust[u].level)

\* a consume_invite call of p returns in this step, successfully or not
Returns(p, success) ==
  /\ pc[p] # "done"
  /\ pc'[p] = "done"
  /\ loc'[p].op = "consume_invite"
  /\ (loc'[p].ret = "ok") = success

\* this step applies every effect of a redemption by p, and nothing else
AppliesAll(p) ==
  LET c == loc[p].code
      u == codes[c].created_by
      edge == <<u, loc[p].newu, c>>
  IN /\ codes' = [codes EXCEPT ![c] =
           [@ EXCEPT !.use_count = @ + 1, !.used_by = loc[p].newu,
                     !.is_valid = (codes[c].use_count + 1 < codes[c].max_uses)]]
     /\ edge \notin rels
     /\ rels' = rels \cup {edge}
     /\ trust' = [trust EXCEPT ![u] =
           [@ EXCEPT !.successful_invites = @ + 1, !.points = @ + 10]]

Revokes == \E p \in Procs : pc[p] = "idle" /\ pc'[p] = "done" /\ loc'[p].op = "revoke_invite"

\* C12: the step in which consume_invite succeeds applies use_count + 1, is_valid,
\* the new relationship edge and the inviter's successful_invites + 1 and
\* points + 10 together; every other step of a consume_invite call, among them a
\* rejection and a failure part-way, leaves the three tables unchanged, so no
\* state holds only some of the effects.
C12_ConsumeAllOrNothing ==
  [][ /\ \A p \in Procs : Returns(p, TRUE) => AppliesAll(p)
      /\ (\A p \in Procs : ~Returns(p, TRUE)) =>
           /\ UNCHANGED <<rels, trust>>
           /\ ~Revokes => UNCHANGED codes ]_vars

\* one redemption failed after its three writes and left nothing behind, and a
\* later one succeeded
C12_Witness ==
  \E p, q \in Procs :
    /\ pc[p] = "done" /\ loc[p].ret = "err_db" /\ loc[p].wtrust
    /\ pc[q] = "done" /\ loc[q].op = "consume_invite" /\ loc[q].ret = "ok"
    /\ loc[q].code = loc[p].code
    /\ codes[loc[p].code].use_count = 1
    /\ Cardinality(rels) = 1
    /\ trust["alice"].successful_invites = 1

\* C13: a code whose is_valid is false is never changed again, so it is never
\* redeemed and never becomes valid; and every successful consume_invite found
\* its code valid and not past expires_at when it validated it.
C13_InvalidCodesStayInvalid ==
  [][ /\ \A c \in Codes :
           (codes[c].exists /\ ~codes[c].is_valid) => codes'[c] = codes[c]
      /\ \A p \in Procs :
           Returns(p, TRUE) =>
             /\ codes[loc[p].code].is_valid
             /\ loc[p].r.expires_at >= loc[p].t ]_vars

\* a code used up by two redemptions has rejected the next one
C13_Witness ==
  \E p \in Procs :
    /\ pc[p] = "done"
    /\ loc[p].op = "consume_invite"
    /\ loc[p].ret = "err_revoked"
    /\ codes[loc[p].code].use_count = codes[loc[p].code].max_uses
    /\ codes[loc[p].code].max_uses = 2

\* C14: the requests of one user that pass the check under one window key number
\* at most the quota plus the largest number of requests in flight together,
\* less one; with one request at a time that is the quota.
C14_OvershootBoundedByConcurrency ==
  \A k \in Keys :
    passed[k] > 0 => passed[k] <= RateLimit(New, k.action, k.window) + peak - 1

\* two posts at once both passed the hourly quota of 1
C14_Witness ==
  /\ peak = 2
  /\ passed[Key("post", "hour", 0)] = 2

\* C15 as stated: a request has added to its window counters only if the gated
\* action has run and succeeded.
C15_CountedOnlyAfterSuccess ==
  \A p \in Procs : rloc[p].incs > 0 => rloc[p].handler = "ok"

\* C16: the counter of every key of the current window equals the number of
\* increments made on it, however the increment calls interleave.
C16_IncrementsNeverLost ==
  \A k \in Keys :
    k.idx = CurrentWindow(k.window, clock) => cache[k].count = counted[k]

\* two increment calls that both read 0 before either added one left the count 2
C16_Witness ==
  /\ rpc[1] = "done" /\ rpc[2] = "done"
  /\ rloc[1].ret = "forwarded" /\ rloc[2].ret = "forwarded"
  /\ rloc[1].key = CurrentKey("post", "day") /\ rloc[2].key = rloc[1].key
  /\ rloc[1].count = 0 /\ rloc[2].count = 0
  /\ cache[rloc[1].key].count = 2

\* C17 as stated: once a key has an expiry, no step changes it; the key can only
\* disappear when the expiry is reached.
C17_ExpirySetOnce ==
  [][ \A k \in Keys :
        cache[k].expires # Null =>
          \/ cache'[k].expires = cache[k].expires
          \/ cache'[k] = Absent /\ cache[k].expires <= clock' ]_vars

\* C18 as stated: between requests, every key that exists has an expiry and the
\* clock has not reached the end of the key's window.
C18_KeysExpireAtWindowEnd ==
  RateIdle =>
    \A k \in Keys :
      cache[k].count > 0 =>
        /\ cache[k].expires # Null
        /\ clock < (k.idx + 1) * Seconds(k.window)

\* the index of the window of length 3600 or 86400 seconds that holds time t
ClaimedIndex(window, t) == IF window = "hour" THEN t \div 3600 ELSE t \div 86400

\* the count stored for the window of the current index
CountNow(action, window) == cache[Key(action, window, ClaimedIndex(window, clock))].count

\* C19: a check reads only the keys of the current window indexes, and its result
\* follows from their counts alone: it denies only if one of them is at or above
\* its quota, and otherwise reports the smallest quota - count among them,
\* whatever the key of the previous window holds.
C19_RolloverExact ==
  \A p \in Procs :
    Checked(p) =>
      LET l == rloc[p]
          ws == {ClaimedOrder(l.action)[i] : i \in 1..Len(ClaimedOrder(l.action))}
      IN /\ \A k \in l.keys : k.idx = ClaimedIndex(k.window, clock)
         /\ l.info.limited =>
              \E w \in ws : CountNow(l.action, w) >= RateLimit(l.level, l.action, w)
         /\ ~l.info.limited =>
              /\ \A w \in ws :
                   l.info.remaining <= RateLimit(l.level, l.action, w) - CountNow(l.action, w)
              /\ \E w \in ws :
                   l.info.remaining = RateLimit(l.level, l.action, w) - CountNow(l.action, w)

\* the hour before is at its quota and its key still exists, and the first post of
\* the new hour passes with the full hourly quota remaining
C19_Witness ==
  \E p \in Procs :
    /\ Checked(p)
    /\ rloc[p].action = "post" /\ rloc[p].level = New
    /\ clock \div 3600 = 1
    /\ cache[Key("post", "hour", 0)].count >= 1
    /\ cache[Key("post", "hour", 1)].count = 0
    /\ ~rloc[p].info.limited
    /\ rloc[p].info.remaining = 1

\* C20: when every window of the action is below its quota, check_rate_limit
\* reports limited = false, remaining = the smallest quota - count over the
\* windows, and limit = the quota of a window where that smallest value is found.
C20_TightestWindowReported ==
  \A p \in Procs :
    (Checked(p) /\ AtQuota(rloc[p]) = {}) =>
      LET l == rloc[p]
          ws == {ClaimedOrder(l.action)[i] : i \in 1..Len(ClaimedOrder(l.action))}
          left(w) == RateLimit(l.level, l.action, w) - cache[CurrentKey(l.action, w)].count
          tightest == {w \in ws : \A v \in ws : left(w) <= left(v)}
      IN /\ ~l.info.limited
         /\ \A w \in tightest : l.info.remaining = left(w)
         /\ \E w \in tightest : l.info.limit = RateLimit(l.level, l.action, w)

\* a New user with four posts today and none this hour: both windows leave 1
C20_Witness ==
  \E p \in Procs :
    /\ Checked(p)
    /\ rloc[p].action = "post" /\ rloc[p].level = New
    /\ cache[CurrentKey("post", "day")].count = 4
    /\ cache[CurrentKey("post", "hour")].count = 0
    /\ ~rloc[p].info.limited
    /\ rloc[p].info.remaining = 1
    /\ rloc[p].info.limit = 1

\* the action names of the rate table
ClaimedTable ==
  {"post", "follow", "unfollow", "like", "comment", "login", "feed", "notifications",
   "search", "media", "moderation"}

\* C21: for an action name that is not in the rate table the check reports
\* limited = false (limit 0, remaining 0) and the increment does nothing: no
\* connection is opened, so none can fail, no counter is read or written, and
\* the request is forwarded, also while the cache is failing.
C21_UnknownActionPassesThrough ==
  \A p \in Procs :
    (rpc[p] # "idle" /\ rloc[p].action \notin ClaimedTable) =>
      LET l == rloc[p] IN
      /\ l.reads = 0 /\ l.keys = {} /\ l.incs = 0
      /\ ~l.conn_failed /\ ~l.read_failed /\ ~l.inc_failed
      /\ l.ret \in {"none", "forwarded"}
      /\ rpc[p] \in {"inc_connect", "done"} =>
           l.info = [limited |-> FALSE, limit |-> 0, remaining |-> 0]
      /\ rpc[p] = "done" => l.ret = "forwarded"

\* an unknown action is forwarded while the hourly counter of posts is at quota
C21_Witness ==
  \E p \in Procs :
    /\ rpc[p] = "done"
    /\ rloc[p].action = "share"
    /\ rloc[p].ret = "forwarded"
    /\ cache[CurrentKey("post", "hour")].count = 1

\* the quotas of the table: one per action and window
QuotaFields ==
  {"posts_per_hour", "posts_per_day", "follows_per_hour", "follows_per_day",
   "unfollows_per_day", "likes_per_hour", "comments_per_hour",
   "login_attempts_per_hour"}

\* C22: the limits resolved for a request at trust level L are, for every action
\* and window of the table, at least the quota of every lower level and at most
\* the quota of every higher level: New <= Basic <= Trusted <= Verified.
C22_QuotaMonotoneInLevel ==
  \A p \in Procs :
    rpc[p] # "connect" =>
      \A f \in QuotaFields, other \in Levels :
        /\ other <= rloc[p].level => ForTrustLevel(other)[f] <= rloc[p].limits[f]
        /\ other >= rloc[p].level => ForTrustLevel(other)[f] >= rloc[p].limits[f]

\* a Verified user's request resolved 30 logins per hour, above Trusted's 20, and
\* a second post within the hour passed the check
C22_Witness ==
  \E p \in Procs :
    /\ rpc[p] = "done"
    /\ rloc[p].level = Verified
    /\ rloc[p].limits.login_attempts_per_hour = 30
    /\ ForTrustLevel(Trusted).login_attempts_per_hour = 20
    /\ rloc[p].action = "post"
    /\ rloc[p].ret = "forwarded"
    /\ cache[CurrentKey("post", "hour")].count = 2

\* C23: in every reachable state the trust points of every user are at least 0,
\* whatever the order and interleaving of record_activity, record_flag,
\* add_strike and invite redemptions.
C23_PointsNonNegative ==
  \A u \in Users : trust[u].points >= 0

\* a strike on an account with 15 points left it at 0, not at -35
C23_Witness ==
  \E p \in Procs :
    /\ Done(p, "add_strike")
    /\ trust[loc[p].user].posts = 4
    /\ trust[loc[p].user].strikes = 1
    /\ trust[loc[p].user].points = 0

\* the calls that change the points of a user by 5 or more, as the claim lists them
ClaimedLargeUpdate(l) ==
  \/ l.op = "record_activity"
       /\ l.act \in {"post_created", "flag_received", "content_removed"}
  \/ l.op \in {"record_flag", "add_strike", "consume_invite"}

\* the user whose points the call changed
Affected(l) == IF l.op = "consume_invite" THEN l.r.created_by ELSE l.user

\* C24 as stated: right after a completed update of 5 points or more, made with
\* one call at a time, the stored level of the user is the recompute rule
\* applied to the updated metrics.
C24_LargeUpdatesRecompute ==
  \A p \in Procs :
    (pc[p] = "done" /\ loc[p].ret = "ok" /\ ClaimedLargeUpdate(loc[p])) =>
      trust[Affected(loc[p])].level = ClaimedLevel(trust[Affected(loc[p])])

\* the multiples of 10 that flags_received reached on its way from a to b
TenthsCrossed(a, b) == {f \in (a + 1)..b : f >= 10 /\ f % 10 = 0}

\* C25 as stated: a completed record_flag or add_strike, run with one call at a
\* time, has added one automatic strike for every multiple of 10 that
\* flags_received reached during the call, next to the strike add_strike was
\* called for, and no other strike.
C25_TenthFlagStrikes ==
  \A p \in Procs :
    (pc[p] = "done" /\ loc[p].ret = "ok" /\ loc[p].op \in {"record_flag", "add_strike"}) =>
      LET row == trust[loc[p].user]
          own == IF loc[p].op = "add_strike" THEN 1 ELSE 0
      IN row.strikes =
           loc[p].strikes0 + own + Cardinality(TenthsCrossed(loc[p].flags0, row.flags))

\* C26 as stated: whenever no call is running, every user whose stored strikes
\* are 3 or more has a stored ban; no failure leaves the strike without it.
C26_StrikeNeverWithoutBan ==
  NoCallRunning =>
    \A u \in Users :
      (trust[u].exists /\ trust[u].strikes >= 3) => trust[u].banned_until # Null

\* both orders of the two updates have been applied
CommuteDone == calls = 4 /\ \A p \in Procs : pc[p] = "done"

\* the change of points a call asks for, as the claim's sources give it
ClaimedDelta(l) ==
  IF l.op = "record_flag" THEN -10
  ELSE IF l.op = "add_strike" THEN -50
  ELSE CASE l.act = "post_created" -> 5
         [] l.act = "comment_created" -> 2
         [] l.act = "like_received" -> 1
         [] l.act = "follower_gained" -> 3
         [] l.act = "follower_lost" -> -1
         [] l.act = "flag_received" -> -10
         [] l.act = "content_removed" -> -25
         [] OTHER -> 0

\* no call of the run went on to an automatic strike
SingleUpdates == \A p \in Procs : ~loc[p].nested

\* C27 as stated: two point updates applied to equal accounts in the two orders
\* leave the same points.
C27_PointUpdatesCommute ==
  (CommuteDone /\ SingleUpdates) => trust["alice"].points = trust["bob"].points

\* C27 amended: the two orders leave the same points when both updates are
\* losses, or when the losses alone do not take the points below 0 (so no update
\* is clamped in either order).
C27_CommuteUnlessClamped ==
  (CommuteDone /\ SingleUpdates) =>
    LET a == ClaimedDelta(loc[1])
        b == ClaimedDelta(loc[2])
        p0 == loc[1].points0
    IN ((a <= 0 /\ b <= 0) \/ p0 + Min(a, 0) + Min(b, 0) >= 0) =>
         /\ trust["alice"].points = trust["bob"].points
         /\ trust["alice"].points = (IF p0 + a + b < 0 THEN 0 ELSE p0 + a + b)

\* a post (+5) and a flag (-10) on accounts with 15 points give 10 in both orders
C27_Witness ==
  /\ CommuteDone
  /\ loc[1].op = "record_activity" /\ loc[1].act = "post_created"
  /\ loc[2].op = "record_flag"
  /\ loc[1].points0 = 15
  /\ trust["alice"].points = 10
  /\ trust["bob"].points = 10

\* this step is the UPDATE of a set_trust_level call with level Verified
SetsVerified ==
  \E p \in Procs :
    /\ pc[p] = "idle" /\ pc'[p] = "done"
    /\ loc'[p].op = "set_trust_level"
    /\ loc'[p].lvl = 3

UsersOf(row) == { row.user_ids[i] : i \in DOMAIN row.user_ids }

\* process p has returned from a register_fingerprint of a user id
RegisteredUser(p) ==
  /\ Done(p, "register_fingerprint")
  /\ loc[p].ret = "ok"
  /\ loc[p].uid # Null

\* the registration of p found the device seen, unblocked and without its user
AttachedNewUser(p) ==
  /\ RegisteredUser(p)
  /\ loc[p].dev.exists
  /\ ~loc[p].dev.is_blocked
  /\ loc[p].uid \notin UsersOf(loc[p].dev)

\* the registration of p found its user already associated with the device
RegisteredAgain(p) ==
  /\ RegisteredUser(p)
  /\ loc[p].dev.exists
  /\ loc[p].uid \in UsersOf(loc[p].dev)

SameAssociation(p) ==
  /\ devices[loc[p].hash].risk_score = loc[p].dev.risk_score
  /\ devices[loc[p].hash].user_ids = loc[p].dev.user_ids
  /\ devices[loc[p].hash].account_count = loc[p].dev.account_count

\* C29 as stated: registering an already associated user leaves risk_score, the
\* associated users and account_count unchanged, and attaching a new user to an
\* already-seen, unblocked device strictly increases risk_score
C29_NewUserStrictlyIncreases ==
  \A p \in Procs :
    /\ RegisteredAgain(p) => SameAssociation(p)
    /\ AttachedNewUser(p) =>
         devices[loc[p].hash].risk_score > loc[p].dev.risk_score

\* C29, amended: registering an already associated user leaves risk_score, the
\* associated users and account_count unchanged; attaching a new user to an
\* already-seen, unblocked device strictly increases a risk_score below 100 and
\* leaves a risk_score of 100 at 100
C29_IncreasesBelowCap ==
  \A p \in Procs :
    /\ RegisteredAgain(p) => SameAssociation(p)
    /\ AttachedNewUser(p) =>
         /\ loc[p].uid \in UsersOf(devices[loc[p].hash])
         /\ IF loc[p].dev.risk_score < 100
            THEN devices[loc[p].hash].risk_score > loc[p].dev.risk_score
            ELSE devices[loc[p].hash].risk_score = 100

\* user 21 was attached to a seeded device by an earlier call, which raised the
\* risk, and has just been registered on it a second time
C29_Witness ==
  \E p \in Procs :
    /\ RegisteredAgain(p)
    /\ loc[p].uid = 21
    /\ loc[p].dev.user_ids[1] = 1
    /\ loc[p].dev.risk_score \in {10, 55, 85, 80, 75}
    /\ SameAssociation(p)

ClaimedStep(n) ==
  IF n <= 2 THEN 5 ELSE IF n <= 5 THEN 15 ELSE IF n <= 10 THEN 30 ELSE 50

ScenarioRisk == <<0, 5, 10, 25>>

\* C30: attaching a not-yet-associated user to an existing device raises
\* risk_score by the step for the number of distinct accounts the device had
\* before (0-2: 5, 3-5: 15, 6-10: 30, 11 or more: 50), clamped to 100; the first
\* user on an unseen device leaves the risk at 0; distinct users registered one
\* after the other on an unseen device give 0, 5, 10, 25
C30_RiskStepByPriorAccounts ==
  /\ \A p \in Procs :
       /\ AttachedNewUser(p) =>
            devices[loc[p].hash].risk_score =
              Min(100, loc[p].dev.risk_score
                         + ClaimedStep(Cardinality(UsersOf(loc[p].dev))))
       /\ (RegisteredUser(p) /\ ~loc[p].dev.exists) =>
            devices[loc[p].hash].risk_score = 0
  /\ \A h \in Hashes :
       LET d == devices[h] IN
       (/\ d.exists
        /\ Len(d.user_ids) = calls
        /\ calls \in 1..4
        /\ d.user_ids[1] \in {21, 22}
        /\ Cardinality(UsersOf(d)) = calls) => d.risk_score = ScenarioRisk[calls]

\* four distinct users were registered in turn on an unseen device, the fourth
\* found three accounts and a risk of 10, and the risk is now 25
C30_Witness ==
  \E p \in Procs :
    /\ AttachedNewUser(p)
    /\ calls = 4
    /\ Len(loc[p].dev.user_ids) = 3
    /\ loc[p].dev.user_ids[1] \in {21, 22}
    /\ loc[p].dev.risk_score = 10
    /\ devices[loc[p].hash].risk_score = 25

\* the step is an unblock_device of hash h
UnblockStep(h) ==
  \E p \in Procs :
    /\ pc[p] = "idle"
    /\ pc'[p] = "done"
    /\ loc'[p].op = "unblock_device"
    /\ loc'[p].hash = h

\* C31: a device's risk_score is always in 0..100 and never decreases, except
\* at unblock_device, which sets it to floor(old / 2)
C31_RiskBoundedAndMonotone ==
  [][ \A h \in Hashes :
        /\ devices'[h].risk_score \in 0..100
        /\ IF UnblockStep(h)
           THEN devices'[h].risk_score = devices[h].risk_score \div 2
           ELSE devices'[h].risk_score >= devices[h].risk_score ]_vars

RegisteredAnonymous(p) ==
  /\ Done(p, "register_fingerprint")
  /\ loc[p].ret = "ok"
  /\ loc[p].uid = Null

\* C33: an anonymous registration never changes risk_score, the associated
\* users or account_count (a device it creates has risk 0 and no users), and
\* it does not change the risk later user registrations give: the first user
\* attached to a device that has no associated users leaves the risk at 0
C33_AnonymousRiskNeutral ==
  \A p \in Procs :
    /\ (RegisteredAnonymous(p) /\ loc[p].dev.exists) => SameAssociation(p)
    /\ (RegisteredAnonymous(p) /\ ~loc[p].dev.exists) =>
         /\ devices[loc[p].hash].risk_score = 0
         /\ devices[loc[p].hash].user_ids = <<>>
         /\ devices[loc[p].hash].account_count = 0
    /\ (AttachedNewUser(p) /\ UsersOf(loc[p].dev) = {}) =>
         devices[loc[p].hash].risk_score = 0

\* process p was a register_fingerprint call that found no row for its hash
FoundUnseen(p) ==
  /\ Done(p, "register_fingerprint")
  /\ ~loc[p].dev.exists

\* C34: two concurrent register_fingerprint calls for the same unseen hash both
\* complete successfully and leave exactly one device record for the hash
C34_ConcurrentFirstRegistrationsConverge ==
  (FoundUnseen(1) /\ FoundUnseen(2) /\ loc[1].hash = loc[2].hash) =>
    /\ loc[1].ret = "ok"
    /\ loc[2].ret = "ok"
    /\ devices[loc[1].hash].exists

\* process p returned success from a register_fingerprint of a user on a device
\* it did not find blocked
Observed(p) ==
  /\ RegisteredUser(p)
  /\ ~IF loc[p].dev.exists THEN loc[p].dev.is_blocked ELSE FALSE

\* C35: the associated users of a device are exactly the users whose
\* registration succeeded: each of them is a member, none appears twice, and
\* account_count is the number of members
C35_AssociatedUsersExact ==
  /\ \A p \in Procs :
       Observed(p) => loc[p].uid \in UsersOf(devices[loc[p].hash])
  /\ \A h \in Hashes :
       /\ Cardinality(UsersOf(devices[h])) = Len(devices[h].user_ids)
       /\ devices[h].account_count = Len(devices[h].user_ids)

(***************************************************************************)
(* Revocation, signup, counting, bans and remaining quota                  *)
(***************************************************************************)
\* C36: revoke_invite(code, user) returns true and sets is_valid to FALSE only
\* when user created the code and the code is valid; for another user, or for
\* a code that is already invalid or unknown, it returns false and leaves the
\* code as it was
C36_RevokeOnlyByCreatorOfValidCode ==
  [][ \A p \in Procs :
        (pc[p] = "idle" /\ pc'[p] = "done" /\ loc'[p].op = "revoke_invite") =>
          LET c == loc'[p].code
              u == loc'[p].user
          IN IF codes[c].exists /\ codes[c].created_by = u /\ codes[c].is_valid
             THEN /\ loc'[p].ret = "true"
                  /\ codes' = [codes EXCEPT ![c].is_valid = FALSE]
             ELSE /\ loc'[p].ret = "false"
                  /\ codes' = codes ]_vars

\* bob's revocation of alice's valid code was refused and left it valid, then
\* alice's own revocation returned true and made it invalid
C36_Witness ==
  /\ Done(1, "revoke_invite")
  /\ loc[1].user = "bob"
  /\ loc[1].ret = "false"
  /\ Done(2, "revoke_invite")
  /\ loc[2].user = "alice"
  /\ loc[2].ret = "true"
  /\ loc[1].code = loc[2].code
  /\ codes[loc[2].code].exists
  /\ ~codes[loc[2].code].is_valid

\* the step is one of p's signup
SignupStep(p) == loc'[p].op = "signup" /\ pc'[p] # pc[p]

\* the step is the successful return of p's signup
SignupCommits(p) ==
  /\ pc[p] # "done"
  /\ pc'[p] = "done"
  /\ loc'[p].op = "signup"
  /\ loc'[p].ret = "ok"

\* C37: an account and its trust record appear only in the step in which a
\* signup redeems a valid invite code (use_count + 1 and a new relationship
\* edge in the same step); every other step of a signup, among them the
\* rejection of an unknown, revoked, expired or fully used code, leaves users,
\* trust records, relationship edges and codes unchanged
C37_SignupAndRedemptionTogether ==
  [][ /\ \A h \in Users :
           ((h \notin users /\ h \in users') \/ (~trust[h].exists /\ trust'[h].exists))
             => \E p \in Procs :
                  LET c == loc'[p].code IN
                  /\ SignupCommits(p)
                  /\ loc'[p].user = h
                  /\ h \in users'
                  /\ trust'[h].exists
                  /\ codes[c].exists
                  /\ codes[c].is_valid
                  /\ codes[c].use_count < codes[c].max_uses
                  /\ codes[c].expires_at >= loc'[p].t
                  /\ codes'[c].use_count = codes[c].use_count + 1
                  /\ <<codes[c].created_by, loc'[p].newu, c>> \in rels' \ rels
      /\ \A p \in Procs :
           SignupStep(p) =>
             IF SignupCommits(p)
             THEN loc'[p].user \in users' /\ trust'[loc'[p].user].exists
             ELSE UNCHANGED <<users, trust, rels, codes>> ]_vars

\* a signup of bob with an unknown code failed and left nothing, and a signup of
\* bob with alice's code then created the account, the trust record and the edge
C37_Witness ==
  /\ Done(1, "signup")
  /\ loc[1].ret = "err_invalid_code"
  /\ Done(2, "signup")
  /\ loc[2].ret = "ok"
  /\ loc[2].user = "bob"
  /\ users = {"alice", "bob"}
  /\ trust["bob"].exists
  /\ rels = {<<"alice", loc[2].newu, "seed">>}
  /\ codes["seed"].use_count = 1

\* C38: every request for a rate-limited action that the middleware forwards to
\* the handler has been counted once in each of its windows
C38_ForwardedRequestsCounted ==
  \A p \in Procs :
    (/\ rpc[p] = "done"
     /\ rloc[p].ret = "forwarded"
     /\ rloc[p].action \in {"post", "follow"})
      => rloc[p].incs = 2

\* C39: under any interleaving of add_strike and record_flag calls for a user,
\* banned_until never moves to an earlier instant
C39_BanNeverShortened ==
  [][ \A u \in Users :
        trust[u].banned_until # Null =>
          /\ trust'[u].banned_until # Null
          /\ trust'[u].banned_until >= trust[u].banned_until ]_vars

\* check_rate_limit would report limited: some window of the action has reached
\* the quota of the level
WouldLimit(lv, a) ==
  \E i \in 1..Len(Checks(a)) :
    cache[CurrentKey(a, Checks(a)[i])].count >= RateLimit(lv, a, Checks(a)[i])

\* C40: for post, follow, like and comment, get_remaining returns 0 whenever
\* check_rate_limit would report limited, so a value above 0 means the check
\* would pass
C40_RemainingAgreesWithCheck ==
  \A p \in Procs :
    (/\ rpc[p] = "done"
     /\ rloc[p].ret = "remaining"
     /\ rloc[p].action \in {"post", "follow", "like", "comment"}
     /\ WouldLimit(rloc[p].level, rloc[p].action))
      => rloc[p].info.remaining = 0

====
